---- MODULE Spec2Model ----
(***************************************************************************)
(* Model of the scroll_rack local store: the inventory, checkout ledger    *)
(* and retrieval-plan stores of CardDB (src/src/shared/card-db.js) and the *)
(* CHECKOUT_CARDS / CHECKIN_CARDS message handlers of the service worker   *)
(* (src/src/background/index.js).                                          *)
(*                                                                         *)
(* Strings are sequences of one-character strings, so that the note        *)
(* format and its parser are modelled by what they do.  Optional values    *)
(* (null / undefined / absent property) are the empty set, a present       *)
(* value v is {v}.  Time is counted in days: Date.now() is `now`, and the  *)
(* 30 * 24 * 60 * 60 * 1000 ms of the plan expiry are PlanTTL days.        *)
(***************************************************************************)
EXTENDS Integers, Sequences, FiniteSets, TLC

\* ---------------------------------------------------------------------
\* Bounds of the model
\* ---------------------------------------------------------------------
MaxCheckouts == 2
MaxPlans == 2
MaxBatch == 2
MaxClock == 31

\* ---------------------------------------------------------------------
\* Program constants
\* ---------------------------------------------------------------------
PlanTTL == 30

\* ---------------------------------------------------------------------
\* Input domains
\* ---------------------------------------------------------------------
InvIds == {1, 2}
TagD == <<"d">>
TagUnknown == <<"U", "n", "k", "n", "o", "w", "n">>
\* targetLocation and targetOffset as sent in a CHECKOUT_CARDS message: a
\* location with an offset, or both missing (<<>> and 0 stand for falsy values)
TargetInputs == {<<TagD, 2>>, <<<<>>, 0>>}
\* the note an imported CSV row carries: well formed for id 1, empty for id 2
ImportNote(i) == IF i = 1 THEN <<"a", "p", "1">> ELSE <<>>
\* the note id the remote service hands out for a created note
NewNoteId == 7
\* clock advances: the life time of a plan
TickSteps == {PlanTTL}
\* locationTag and position of a CHECKIN_CARDS message: a return location
\* without a position (0 stands for a falsy value)
ReturnInputs == {<<<<"a">>, 0>>}

None == {}
Some(v) == {v}
The(o) == CHOOSE v \in o : TRUE

VARIABLES inventory, checkouts, plans, nextPlanId, now, req, resp, planned,
          cards, sets, indexNames, stateStore, epoch, knownSets, overlay

vars == <<inventory, checkouts, plans, nextPlanId, now, req, resp, planned,
          cards, sets, indexNames, stateStore, epoch, knownSets, overlay>>

\* history: the number of checkout records there were at the last import
\* and at the last clearing of the inventory
NoEpoch == [import |-> 0, clear |-> 0]

\* chrome.storage.local (the keys known_sets and known_sets_timestamp, both
\* present or both absent) and the fields of the SetManager instance
NoKnownSets == [storage |-> {}, cachedSets |-> {}, lastFetch |-> {}]

\* the overlay as the page builds it, before loadState has run: the four
\* sections carry the class "disabled" in the markup, the search input does
\* not; pending holds the continuations that wait for an answer; echoToken
\* is the token the background keeps in chrome.storage.local
Sections == {"cache", "addCards", "checkout", "plans"}

ClosedOverlay ==
  [currentPhase |-> "login", hasAuth |-> FALSE, hasCachedSets |-> FALSE,
   disabled |-> Sections, searchDisabled |-> FALSE, isAdding |-> FALSE,
   loggedIn |-> FALSE, expanded |-> FALSE, pending |-> {}, echoToken |-> FALSE]

ledgerVars == <<inventory, checkouts, plans, nextPlanId, now, req, resp, planned>>

\* ---------------------------------------------------------------------
\* String helpers
\* ---------------------------------------------------------------------
DigitChars == <<"0", "1", "2", "3", "4", "5", "6", "7", "8", "9">>

IsDigit(c) == \E d \in 1..10 : DigitChars[d] = c

DigitVal(c) == (CHOOSE d \in 1..10 : DigitChars[d] = c) - 1

\* template-literal rendering of a non-negative integer
RECURSIVE NumToStr(_)
NumToStr(n) ==
  IF n < 10 THEN <<DigitChars[n + 1]>>
  ELSE NumToStr(n \div 10) \o <<DigitChars[(n % 10) + 1]>>

\* Number(s) for a string of decimal digits
RECURSIVE StrToNum(_)
StrToNum(s) ==
  IF Len(s) = 0 THEN 0
  ELSE 10 * StrToNum(SubSeq(s, 1, Len(s) - 1)) + DigitVal(s[Len(s)])

AllDigits(s) == Len(s) > 0 /\ \A i \in 1..Len(s) : IsDigit(s[i])

\* white space and line terminators, which String.prototype.trim strips
IsSpace(c) == c = " " \/ c = "\n"

RECURSIVE TrimLeft(_)
TrimLeft(s) ==
  IF Len(s) > 0 /\ IsSpace(s[1]) THEN TrimLeft(Tail(s)) ELSE s

RECURSIVE TrimRight(_)
TrimRight(s) ==
  IF Len(s) > 0 /\ IsSpace(s[Len(s)]) THEN TrimRight(SubSeq(s, 1, Len(s) - 1)) ELSE s

Trim(s) == TrimRight(TrimLeft(s))

SetMin(S) == CHOOSE m \in S : \A x \in S : m <= x

\* ---------------------------------------------------------------------
\* Location notes
\* ---------------------------------------------------------------------
NoLocation == [tag |-> None, position |-> None]

\* a parse that splits at the first "p" of the note
parseNoteLocationFirstP(note) ==
  IF note = <<>> THEN NoLocation
  ELSE
    LET s == Trim(note)
        ks == {k \in 1..Len(s) : k + 2 <= Len(s) /\ s[k + 1] = "p"}
    IN IF ks = {} THEN NoLocation
       ELSE LET k == SetMin(ks)
            IN IF AllDigits(SubSeq(s, k + 2, Len(s)))
               THEN [tag |-> Some(SubSeq(s, 1, k)),
                     position |-> Some(StrToNum(SubSeq(s, k + 2, Len(s))))]
               ELSE NoLocation

\* note.trim().match(/^(.+?)p(\d+)$/): the lazy group takes the shortest
\* non-empty prefix that is followed by "p" and digits up to the end; "."
\* matches no line terminator
parseNoteLocation(note) ==
  IF note = <<>> THEN NoLocation
  ELSE
    LET s == Trim(note)
        ks == {k \in 1..Len(s) :
                 /\ k + 2 <= Len(s)
                 /\ s[k + 1] = "p"
                 /\ \A j \in 1..k : s[j] # "\n"
                 /\ AllDigits(SubSeq(s, k + 2, Len(s)))}
    IN IF ks = {} THEN NoLocation
       ELSE LET k == SetMin(ks)
            IN [tag |-> Some(SubSeq(s, 1, k)),
                position |-> Some(StrToNum(SubSeq(s, k + 2, Len(s))))]

\* `${targetLocation}p${newPosition}`
NoteText(loc, pos) == loc \o <<"p">> \o NumToStr(pos)

\* ---------------------------------------------------------------------
\* Checkout ledger (object store "checkouts", keyPath id, autoIncrement)
\* `checkouts` is the store in key order: the record with key i is
\* checkouts[i]; no operation of CardDB deletes from this store.
\* ---------------------------------------------------------------------
HasInv(inv, invId) == invId \in DOMAIN inv

\* a loop body that gives every record of the batch the starting position
CheckoutRecNoIndex(inv, invId, targetLocation, targetOffset, i, t) ==
  LET src == parseNoteLocation(IF HasInv(inv, invId) THEN inv[invId].note ELSE <<>>)
  IN [echo_inventory_id |-> invId,
      emid |-> IF HasInv(inv, invId) THEN inv[invId].emid ELSE 0,
      target_location |-> targetLocation,
      target_position |-> targetOffset,
      source_location |-> src.tag,
      source_position |-> src.position,
      status |-> "out",
      checked_out_at |-> t,
      checked_in_at |-> None,
      return_location |-> None,
      return_position |-> None]

\* the record built in the loop body for batch index i (1-based here,
\* 0-based in the source), from the inventory as it is at that point
CheckoutRec(inv, invId, targetLocation, targetOffset, i, t) ==
  LET src == parseNoteLocation(IF HasInv(inv, invId) THEN inv[invId].note ELSE <<>>)
  IN [echo_inventory_id |-> invId,
      emid |-> IF HasInv(inv, invId) THEN inv[invId].emid ELSE 0,
      target_location |-> targetLocation,
      target_position |-> targetOffset + (i - 1),
      source_location |-> src.tag,
      source_position |-> src.position,
      status |-> "out",
      checked_out_at |-> t,
      checked_in_at |-> None,
      return_location |-> None,
      return_position |-> None]

\* checkoutStore.put(rec): the store keeps a copy carrying the generated key
Stored(rec, key) == [id |-> key] @@ rec

\* a note write that does not stop at the record of invId
NoteUpdateAllRecords(inv, invId, targetLocation, newPosition) ==
  IF HasInv(inv, invId)
  THEN [k \in DOMAIN inv |->
          [inv[k] EXCEPT !.note = NoteText(targetLocation, newPosition)]]
  ELSE inv

\* the note write of the loop body: only when the inventory record exists
NoteUpdate(inv, invId, targetLocation, newPosition) ==
  IF HasInv(inv, invId)
  THEN [inv EXCEPT ![invId].note = NoteText(targetLocation, newPosition)]
  ELSE inv

RECURSIVE CheckoutLoop(_, _, _, _, _, _)
CheckoutLoop(i, inventoryIds, targetLocation, targetOffset, t, st) ==
  IF i > Len(inventoryIds) THEN st
  ELSE
    LET invId == inventoryIds[i]
        rec == CheckoutRec(st.inventory, invId, targetLocation, targetOffset, i, t)
        key == Len(st.checkouts) + 1
    IN CheckoutLoop(i + 1, inventoryIds, targetLocation, targetOffset, t,
         [inventory |-> NoteUpdate(st.inventory, invId, targetLocation,
                                   targetOffset + (i - 1)),
          checkouts |-> Append(st.checkouts, Stored(rec, key)),
          records |-> Append(st.records, rec)])

\* one readwrite transaction over ["checkouts", "inventory"]
checkoutCards(inv, cos, inventoryIds, targetLocation, targetOffset, t) ==
  CheckoutLoop(1, inventoryIds, targetLocation, targetOffset, t,
               [inventory |-> inv, checkouts |-> cos, records |-> <<>>])

\* a check-in that flips the status whatever it is
CheckinOneToggle(cos, id, locationTag, position, t) ==
  IF id \in DOMAIN cos
  THEN [cos EXCEPT ![id] =
          [@ EXCEPT !.status = IF @ = "out" THEN "in" ELSE "out",
                    !.checked_in_at = Some(t),
                    !.return_location =
                       IF locationTag # <<>> THEN Some(locationTag) ELSE @,
                    !.return_position =
                       IF position # 0 THEN Some(position) ELSE @]]
  ELSE cos

\* a check-in that also rewrites a record that is in already, clearing its
\* checked_in_at
CheckinOneAgain(cos, id, locationTag, position, t) ==
  IF id \in DOMAIN cos
  THEN [cos EXCEPT ![id] =
          [@ EXCEPT !.status = "in",
                    !.checked_in_at = IF @ = None THEN Some(t) ELSE None,
                    !.return_location =
                       IF locationTag # <<>> THEN Some(locationTag) ELSE @,
                    !.return_position =
                       IF position # 0 THEN Some(position) ELSE @]]
  ELSE cos

\* the loop body of checkinCards for one id
CheckinOne(cos, id, locationTag, position, t) ==
  IF id \in DOMAIN cos /\ cos[id].status = "out"
  THEN [cos EXCEPT ![id] =
          [@ EXCEPT !.status = "in",
                    !.checked_in_at = Some(t),
                    !.return_location =
                       IF locationTag # <<>> THEN Some(locationTag) ELSE @,
                    !.return_position =
                       IF position # 0 THEN Some(position) ELSE @]]
  ELSE cos

\* a loop that counts every id it finds, out or not
RECURSIVE CheckinLoopCountAll(_, _, _, _, _, _)
CheckinLoopCountAll(i, ids, locationTag, position, t, st) ==
  IF i > Len(ids) THEN st
  ELSE
    LET id == ids[i]
        hit == id \in DOMAIN st.checkouts
    IN CheckinLoopCountAll(i + 1, ids, locationTag, position, t,
         [checkouts |-> CheckinOne(st.checkouts, id, locationTag, position, t),
          updated |-> IF hit THEN st.updated + 1 ELSE st.updated])

RECURSIVE CheckinLoop(_, _, _, _, _, _)
CheckinLoop(i, ids, locationTag, position, t, st) ==
  IF i > Len(ids) THEN st
  ELSE
    LET id == ids[i]
        hit == id \in DOMAIN st.checkouts /\ st.checkouts[id].status = "out"
    IN CheckinLoop(i + 1, ids, locationTag, position, t,
         [checkouts |-> CheckinOne(st.checkouts, id, locationTag, position, t),
          updated |-> IF hit THEN st.updated + 1 ELSE st.updated])

\* one readwrite transaction over "checkouts"
checkinCards(cos, ids, locationTag, position, t) ==
  CheckinLoop(1, ids, locationTag, position, t,
              [checkouts |-> cos, updated |-> 0])

\* r.target_location || r.list_name || "Unknown" (no record has list_name)
LocOf(r) == IF r.target_location # <<>> THEN r.target_location ELSE TagUnknown

\* the whole store instead of the by_status index
AllRecords(cos) == cos

\* index by_status restricted to "out", in key order
OutRecords(cos) == SelectSeq(cos, LAMBDA r : r.status = "out")

GroupIndex(groups, loc) ==
  IF \E j \in 1..Len(groups) : groups[j].location = loc
  THEN CHOOSE j \in 1..Len(groups) : groups[j].location = loc
  ELSE 0

RECURSIVE GroupLoop(_, _, _)
GroupLoop(i, records, groups) ==
  IF i > Len(records) THEN groups
  ELSE
    LET r == records[i]
        loc == LocOf(r)
        j == GroupIndex(groups, loc)
        gs == IF j = 0
              THEN Append(groups, [location |-> loc, count |-> 0,
                                   checkedOutAt |-> r.checked_out_at])
              ELSE groups
        k == IF j = 0 THEN Len(gs) ELSE j
        g == gs[k]
    IN GroupLoop(i + 1, records,
         [gs EXCEPT ![k] =
            [location |-> g.location,
             count |-> g.count + 1,
             checkedOutAt |-> IF r.checked_out_at < g.checkedOutAt
                              THEN r.checked_out_at ELSE g.checkedOutAt]])

\* Array.from(groups.values()): groups in order of first occurrence
getCheckoutGroups(cos) == GroupLoop(1, OutRecords(cos), <<>>)

getCheckoutCards(cos, location) ==
  SelectSeq(cos, LAMBDA r : r.status = "out" /\ LocOf(r) = location)

\* ---------------------------------------------------------------------
\* Inventory (object store "inventory", keyPath echo_inventory_id)
\* `inventory` maps the keys present to their records.
\* ---------------------------------------------------------------------
EmptyStore == [k \in {} |-> {}]

Put(store, key, rec) == [k \in DOMAIN store \cup {key} |-> IF k = key THEN rec ELSE store[k]]

\* the loop of importInventory: store.put(rec) throws DataError for a record
\* without echo_inventory_id, and the loop ends there
RECURSIVE PutAll(_, _, _)
PutAll(store, records, i) ==
  IF i > Len(records) THEN [store |-> store, ok |-> TRUE]
  ELSE IF "echo_inventory_id" \notin DOMAIN records[i] THEN [store |-> store, ok |-> FALSE]
  ELSE PutAll(Put(store, records[i].echo_inventory_id, records[i]), records, i + 1)

\* store.clear() followed by store.put(rec) for every record, one transaction.
\* An exception thrown by put leaves the function before txComplete without
\* aborting: the clear and the puts made so far commit.  storageError: a
\* request of the transaction fails, the transaction aborts and nothing of it
\* is stored.  ok is FALSE when the call rejects.
importInventory(inv, records, storageError) ==
  LET loop == PutAll(EmptyStore, records, 1)
  IN IF ~loop.ok THEN [inventory |-> loop.store, ok |-> FALSE, count |-> 0]
     ELSE IF storageError THEN [inventory |-> inv, ok |-> FALSE, count |-> 0]
     ELSE [inventory |-> loop.store, ok |-> TRUE, count |-> Len(records)]

\* store.get(key): the record, or undefined
getInventoryItem(inv, inventoryId) ==
  IF HasInv(inv, inventoryId) THEN Some(inv[inventoryId]) ELSE None

RECURSIVE NoteIdLoop(_, _, _)
NoteIdLoop(inv, updates, i) ==
  IF i > Len(updates) THEN inv
  ELSE
    LET u == updates[i]
    IN NoteIdLoop(IF HasInv(inv, u.echo_inventory_id)
                  THEN [inv EXCEPT ![u.echo_inventory_id].note_id = Some(u.note_id)]
                  ELSE inv,
                  updates, i + 1)

\* an update that stores a record made of the two fields of the update
updateInventoryNoteIdsOnly(inv, updates) ==
  LET synced == NoteIdLoop(inv, updates, 1)
      named == {updates[i].echo_inventory_id : i \in DOMAIN updates}
  IN [k \in DOMAIN synced |->
        IF k \in named THEN [synced[k] EXCEPT !.note = <<>>] ELSE synced[k]]

updateInventoryNoteIds(inv, updates) == NoteIdLoop(inv, updates, 1)

\* ---------------------------------------------------------------------
\* Characters and strings: UTF-16 code unit order, case mapping, prefix and
\* substring tests
\* ---------------------------------------------------------------------
\* the characters of the model in code unit order
Chars ==
  <<" ", "'", "(", ")", "-", "/",
    "0", "1", "2", "3", "4", "5", "6", "7", "8", "9",
    "A", "B", "C", "D", "E", "F", "G", "H", "I", "J", "K", "L", "M",
    "N", "O", "P", "Q", "R", "S", "T", "U", "V", "W", "X", "Y", "Z",
    "a", "b", "c", "d", "e", "f", "g", "h", "i", "j", "k", "l", "m",
    "n", "o", "p", "q", "r", "s", "t", "u", "v", "w", "x", "y", "z">>

\* the place of each character in that order
CodeOf == [c \in {Chars[i] : i \in 1..Len(Chars)} |-> CHOOSE i \in 1..Len(Chars) : Chars[i] = c]

CharCode(c) == CodeOf[c]

IsUpper(c) == CharCode(c) >= CharCode("A") /\ CharCode(c) <= CharCode("Z")

IsLower(c) == CharCode(c) >= CharCode("a") /\ CharCode(c) <= CharCode("z")

LowerOf ==
  [c \in DOMAIN CodeOf |->
     IF IsUpper(c) THEN Chars[CharCode(c) + (CharCode("a") - CharCode("A"))] ELSE c]

UpperOf ==
  [c \in DOMAIN CodeOf |->
     IF IsLower(c) THEN Chars[CharCode(c) - (CharCode("a") - CharCode("A"))] ELSE c]

LowerChar(c) == LowerOf[c]

UpperChar(c) == UpperOf[c]

\* String.prototype.toLowerCase / toUpperCase
toLowerCase(s) == [i \in 1..Len(s) |-> LowerChar(s[i])]

toUpperCase(s) == [i \in 1..Len(s) |-> UpperChar(s[i])]

\* String.prototype.startsWith
startsWith(s, q) == Len(q) <= Len(s) /\ SubSeq(s, 1, Len(q)) = q

\* String.prototype.indexOf, 0-based, -1 when q does not occur
indexOf(s, q) ==
  LET at == {k \in 0..(Len(s) - Len(q)) : SubSeq(s, k + 1, k + Len(q)) = q}
  IN IF at = {} THEN 0 - 1 ELSE SetMin(at)

\* String.prototype.includes
includes(s, q) == indexOf(s, q) >= 0

\* the order of string keys in an index: by code units, a proper prefix first
RECURSIVE StrLess(_, _)
StrLess(a, b) ==
  IF Len(b) = 0 THEN FALSE
  ELSE IF Len(a) = 0 THEN TRUE
  ELSE IF a[1] # b[1] THEN CharCode(a[1]) < CharCode(b[1])
  ELSE StrLess(Tail(a), Tail(b))

\* ---------------------------------------------------------------------
\* Text normalizer (search-utils.js and card-name-utils.js)
\* ---------------------------------------------------------------------
StopWords ==
  {<<"a">>, <<"a", "n">>, <<"t", "h", "e">>, <<"o", "f">>, <<"a", "n", "d">>,
   <<"f", "o", "r">>, <<"t", "o">>, <<"i", "n">>}

IsSeparator(c) == c \in {" ", "-"}

\* the maximal runs of non-separator characters, in order
RECURSIVE SplitWords(_, _, _)
SplitWords(s, i, cur) ==
  IF i > Len(s) THEN (IF cur = <<>> THEN <<>> ELSE <<cur>>)
  ELSE IF IsSeparator(s[i])
       THEN (IF cur = <<>> THEN <<>> ELSE <<cur>>) \o SplitWords(s, i + 1, <<>>)
       ELSE SplitWords(s, i + 1, Append(cur, s[i]))

extractTokens(name) ==
  SelectSeq(SplitWords(toLowerCase(name), 1, <<>>), LAMBDA w : w \notin StopWords)

generateInitials(name) ==
  LET toks == extractTokens(name)
  IN [i \in 1..Len(toks) |-> toks[i][1]]

generateProgressiveInitials(name) ==
  LET all == generateInitials(name)
  IN [i \in 1..Len(all) |-> SubSeq(all, 1, i)]

IsSearchChar(c) ==
  IsLower(c) \/ IsDigit(c) \/ c = "-" \/ c = " "

\* lowercase, apostrophes dropped, every other character outside
\* [a-z0-9- ] replaced by a space, trimmed
normalizeForSearch(name) ==
  LET lower == toLowerCase(name)
      kept == SelectSeq(lower, LAMBDA c : c # "'")
  IN Trim([i \in 1..Len(kept) |-> IF IsSearchChar(kept[i]) THEN kept[i] ELSE " "])

endsWith(s, q) == Len(q) <= Len(s) /\ SubSeq(s, Len(s) - Len(q) + 1, Len(s)) = q

EmblemPrefix == <<"E", "m", "b", "l", "e", "m", " ", "-", " ">>

EmblemSuffix == <<" ", "E", "m", "b", "l", "e", "m">>

TokenSuffix == <<" ", "T", "o", "k", "e", "n">>

\* the style keywords a parenthetical may hold
StyleKeywords ==
  {<<"B", "o", "r", "d", "e", "r", "l", "e", "s", "s">>,
   <<"E", "x", "t", "e", "n", "d", "e", "d", " ", "A", "r", "t">>,
   <<"S", "h", "o", "w", "c", "a", "s", "e">>,
   <<"F", "o", "i", "l", " ", "E", "t", "c", "h", "e", "d">>}

\* a fraction "n/m"
IsFraction(s) ==
  \E k \in 2..(Len(s) - 1) :
     /\ s[k] = "/"
     /\ AllDigits(SubSeq(s, 1, k - 1))
     /\ AllDigits(SubSeq(s, k + 1, Len(s)))

\* a style keyword, a collector number (zero-padded or not) or a fraction
IsDecoration(s) == s \in StyleKeywords \/ AllDigits(s) \/ IsFraction(s)

\* where the last "(" of s stands, 0 when there is none
LastOpen(s) ==
  LET at == {k \in 1..Len(s) : s[k] = "("}
  IN IF at = {} THEN 0 ELSE CHOOSE k \in at : \A j \in at : j <= k

\* trailing parentheticals are stripped while the last one is a decoration
RECURSIVE StripDecorations(_)
StripDecorations(s) ==
  LET open == LastOpen(s)
  IN IF Len(s) > 0 /\ s[Len(s)] = ")" /\ open > 0
        /\ IsDecoration(SubSeq(s, open + 1, Len(s) - 1))
     THEN StripDecorations(TrimRight(SubSeq(s, 1, open - 1)))
     ELSE s

\* the front face of a double-faced name, "Emblem - X" as "X Emblem",
\* trailing decorations stripped, then one trailing " Token", trimmed
normalizeCardName(name) ==
  LET at == indexOf(name, <<"/", "/">>)
      face == IF at >= 0 THEN Trim(SubSeq(name, 1, at)) ELSE name
      emblem == IF startsWith(face, EmblemPrefix) /\ Len(face) > Len(EmblemPrefix)
                THEN SubSeq(face, Len(EmblemPrefix) + 1, Len(face)) \o EmblemSuffix
                ELSE face
      plain == StripDecorations(emblem)
      noToken == IF endsWith(plain, TokenSuffix)
                 THEN SubSeq(plain, 1, Len(plain) - Len(TokenSuffix))
                 ELSE plain
  IN Trim(noToken)

\* ---------------------------------------------------------------------
\* The database schema: the indexes of the object store "cards" after
\* onupgradeneeded has run for a database found at oldVersion with the
\* indexes `names` (oldVersion 0: no database yet)
\* ---------------------------------------------------------------------
V1Indexes == {"by_first_letter", "by_set_code", "by_name"}

SearchIndexes == {"by_initials", "by_search_normalized"}

openDB(oldVersion, names) ==
  LET created == IF oldVersion < 1 THEN V1Indexes ELSE names
  IN IF oldVersion >= 1 /\ oldVersion < 2 THEN created \cup SearchIndexes
     ELSE created

\* ---------------------------------------------------------------------
\* Card cache (object stores "cards", keyPath emid, and "sets", keyPath
\* set_code)
\* `cards` and `sets` map the keys present to their records.
\* ---------------------------------------------------------------------
\* a raw row carries emid as {n}, or {} when the row has no emid
toCardRecord(raw, setCode, setName) ==
  LET name == Trim(raw.name)
      searchNormalized == normalizeForSearch(name)
  IN [emid |-> raw.emid,
      name |-> name,
      name_lower |-> toLowerCase(name),
      name_normalized |-> toLowerCase(normalizeCardName(name)),
      search_normalized |-> searchNormalized,
      first_letter |-> IF searchNormalized = <<>> THEN <<>> ELSE SubSeq(searchNormalized, 1, 1),
      tokens |-> extractTokens(name),
      initials |-> generateInitials(name),
      progressive_initials |-> generateProgressiveInitials(name),
      set_code |-> setCode,
      set_name |-> setName]

\* the loop of cacheSet: cardStore.put(record) throws DataError for a record
\* without a key; the puts made before it stay in the transaction, which is
\* not aborted and commits
RECURSIVE PutCards(_, _, _, _, _)
PutCards(store, rawCards, setCode, setName, i) ==
  IF i > Len(rawCards) THEN [cards |-> store, ok |-> TRUE]
  ELSE IF rawCards[i].emid = None THEN [cards |-> store, ok |-> FALSE]
  ELSE PutCards(Put(store, The(rawCards[i].emid),
                    [toCardRecord(rawCards[i], setCode, setName)
                       EXCEPT !.emid = The(rawCards[i].emid)]),
                rawCards, setCode, setName, i + 1)

\* a cacheSet that keeps the active flag of an entry it finds
cacheSetKeepActive(cardStore, setStore, setCode, setName, rawCards, t) ==
  LET loop == PutCards(cardStore, rawCards, setCode, setName, 1)
  IN [cards |-> loop.cards,
      sets |-> IF loop.ok
               THEN Put(setStore, setCode,
                        [set_code |-> setCode, set_name |-> setName,
                         card_count |-> Len(rawCards), cached_at |-> t,
                         active |-> IF setCode \in DOMAIN setStore
                                    THEN setStore[setCode].active ELSE TRUE])
               ELSE setStore,
      ok |-> loop.ok,
      count |-> Len(rawCards)]

\* ok is FALSE when the call rejects; count is what it returns otherwise
cacheSet(cardStore, setStore, setCode, setName, rawCards, t) ==
  LET loop == PutCards(cardStore, rawCards, setCode, setName, 1)
  IN [cards |-> loop.cards,
      sets |-> IF loop.ok
               THEN Put(setStore, setCode,
                        [set_code |-> setCode, set_name |-> setName,
                         card_count |-> Len(rawCards), cached_at |-> t,
                         active |-> TRUE])
               ELSE setStore,
      ok |-> loop.ok,
      count |-> Len(rawCards)]

Delete(store, key) == [k \in DOMAIN store \ {key} |-> store[k]]

\* the cards the by_set_code cursor over IDBKeyRange.only(setCode) visits
CardsOfSet(cardStore, setCode) ==
  {k \in DOMAIN cardStore : cardStore[k].set_code = setCode}

\* the cursor loop deletes the first card of the set; cursor.continue()
\* returns undefined, so promisify(undefined) rejects and the call ends
\* there: the transaction commits that one delete and the set entry stays.
\* A set without cards skips the loop and has its entry deleted.
clearSet(cardStore, setStore, setCode) ==
  IF CardsOfSet(cardStore, setCode) = {}
  THEN [cards |-> cardStore, sets |-> Delete(setStore, setCode), ok |-> TRUE]
  ELSE [cards |-> Delete(cardStore, SetMin(CardsOfSet(cardStore, setCode))),
        sets |-> setStore,
        ok |-> FALSE]

\* a setSetActive that writes an entry for a set that is not cached
setSetActiveUpsert(setStore, setCode, active) ==
  IF setCode \in DOMAIN setStore
  THEN [setStore EXCEPT ![setCode].active = active]
  ELSE Put(setStore, setCode, [set_code |-> setCode, active |-> active])

setSetActive(setStore, setCode, active) ==
  IF setCode \in DOMAIN setStore
  THEN [setStore EXCEPT ![setCode].active = active]
  ELSE setStore

\* string keys in index order
RECURSIVE StrKeysInOrder(_)
StrKeysInOrder(S) ==
  IF S = {} THEN <<>>
  ELSE LET m == CHOOSE x \in S : \A y \in S \ {x} : StrLess(x, y)
       IN <<m>> \o StrKeysInOrder(S \ {m})

\* store.getAll() of the sets store
getCachedSets(setStore) ==
  LET keys == StrKeysInOrder(DOMAIN setStore)
  IN [i \in 1..Len(keys) |-> setStore[keys[i]]]

getActiveSets(setStore) ==
  LET on == SelectSeq(getCachedSets(setStore), LAMBDA e : e.active # FALSE)
  IN [i \in 1..Len(on) |-> on[i].set_code]

\* ---------------------------------------------------------------------
\* Records of an earlier release and their migration
\* ---------------------------------------------------------------------
\* a record has the property f (a record stored by an earlier release lacks
\* the fields that release did not write)
Has(card, f) == f \in DOMAIN card

\* !card.tokens || !card.initials: an absent field and the empty string are
\* falsy, an array is not
LacksSearchFields(card) ==
  \/ ~Has(card, "tokens")
  \/ ~Has(card, "initials")
  \/ card.initials = <<>>

SampleSize == 5

\* store.getAll(undefined, 5): the first five records in key order
needsSearchMigration(store) ==
  LET sample == {k \in DOMAIN store :
                   Cardinality({j \in DOMAIN store : j < k}) < SampleSize}
  IN sample # {} /\ \E k \in sample : LacksSearchFields(store[k])

\* the record toCardRecord builds from the stored name, set_code and set_name
Migrated(card) ==
  [toCardRecord([emid |-> Some(card.emid), name |-> card.name],
                card.set_code, card.set_name)
     EXCEPT !.emid = card.emid]

migrateSearchSchema(store) ==
  [cards |-> [k \in DOMAIN store |->
                IF LacksSearchFields(store[k]) THEN Migrated(store[k]) ELSE store[k]],
   migrated |-> Cardinality({k \in DOMAIN store : LacksSearchFields(store[k])})]

\* ---------------------------------------------------------------------
\* Search (search-utils.js and CardDB.searchCards)
\* ---------------------------------------------------------------------
\* the maximal runs of non-space characters, in order
RECURSIVE SplitOnSpaces(_, _, _)
SplitOnSpaces(s, i, cur) ==
  IF i > Len(s) THEN (IF cur = <<>> THEN <<>> ELSE <<cur>>)
  ELSE IF s[i] = " "
       THEN (IF cur = <<>> THEN <<>> ELSE <<cur>>) \o SplitOnSpaces(s, i + 1, <<>>)
       ELSE SplitOnSpaces(s, i + 1, Append(cur, s[i]))

\* upper-case letters separated by single spaces, at least two of them
IsSpacedInitials(q) ==
  /\ Len(q) >= 3
  /\ Len(q) % 2 = 1
  /\ \A i \in 1..Len(q) : IF i % 2 = 1 THEN IsUpper(q[i]) ELSE q[i] = " "

Intent(strategy, query, tokens, firstToken) ==
  [strategy |-> strategy, query |-> query, tokens |-> tokens, firstToken |-> firstToken]

detectSearchIntent(query) ==
  LET q == Trim(query)
      words == SplitOnSpaces(toLowerCase(q), 1, <<>>)
  IN IF q = <<>> THEN Intent("empty", <<>>, <<>>, <<>>)
     ELSE IF Len(q) >= 2 /\ \A i \in 1..Len(q) : IsUpper(q[i])
     THEN Intent("initials", toLowerCase(q), <<>>, <<>>)
     ELSE IF IsSpacedInitials(q)
     THEN Intent("space_initials",
                 toLowerCase(SelectSeq(q, LAMBDA c : c # " ")), <<>>, <<>>)
     ELSE IF Len(words) >= 2
     THEN Intent("multi_token", toLowerCase(q), words, words[1])
     ELSE Intent("prefix", toLowerCase(q), <<>>, <<>>)

\* every query token is a prefix of some card token, and there is a query token
matchesTokenPrefixes(queryTokens, cardTokens) ==
  /\ Len(queryTokens) > 0
  /\ \A i \in 1..Len(queryTokens) :
       \E j \in 1..Len(cardTokens) : startsWith(cardTokens[j], queryTokens[i])

\* the 0-based place of the first card token a query token is a prefix of
TokenPlace(queryToken, cardTokens) ==
  SetMin({j \in 1..Len(cardTokens) : startsWith(cardTokens[j], queryToken)}
         \cup {Len(cardTokens) + 1}) - 1

RECURSIVE SumPlaces(_, _, _)
SumPlaces(queryTokens, cardTokens, i) ==
  IF i > Len(queryTokens) THEN 0
  ELSE 10 * TokenPlace(queryTokens[i], cardTokens)
       + SumPlaces(queryTokens, cardTokens, i + 1)

\* lower is better
scoreMatch(intent, card) ==
  IF intent.strategy \in {"initials", "space_initials"}
  THEN (IF card.initials = intent.query THEN 0 ELSE 100)
  ELSE IF intent.strategy = "prefix"
  THEN (IF indexOf(card.name_normalized, intent.query) >= 0
        THEN indexOf(card.name_normalized, intent.query) ELSE 1000)
  ELSE IF intent.strategy = "multi_token"
  THEN SumPlaces(intent.tokens, card.tokens, 1)
  ELSE 1000

\* the records of an index in cursor order: by key, then by primary key; a
\* record without the key path is not in the index
RECURSIVE IndexOrder(_, _, _)
IndexOrder(store, keys, field) ==
  LET in == {k \in keys : Has(store[k], field)}
  IN IF in = {} THEN <<>>
     ELSE LET m == CHOOSE x \in in : \A y \in in \ {x} :
                      \/ StrLess(store[x][field], store[y][field])
                      \/ store[x][field] = store[y][field] /\ x < y
          IN <<store[m]>> \o IndexOrder(store, in \ {m}, field)

\* activeSets && activeSets.length > 0 ? new Set(activeSets.map(toUpperCase)) : null
SetFilter(activeSets) ==
  IF activeSets # None /\ Len(The(activeSets)) > 0
  THEN Some({toUpperCase(The(activeSets)[i]) : i \in 1..Len(The(activeSets))})
  ELSE None

\* !setFilter || setFilter.has(card.set_code)
PassesFilter(card, setFilter) ==
  setFilter = None \/ card.set_code \in The(setFilter)

\* how a search call ends: with a list, with a rejection, or never (an
\* exception thrown inside a request's onsuccess handler leaves the promise
\* of the scan pending for ever)
Found(list) == [out |-> "ok", cards |-> list]
Rejected == [out |-> "error", cards |-> <<>>]
Pending == [out |-> "hang", cards |-> <<>>]

\* index("by_initials") throws when the index does not exist
searchByInitials(store, names, query, setFilter, readError) ==
  IF "by_initials" \notin names \/ readError THEN Rejected
  ELSE Found(SelectSeq(IndexOrder(store, DOMAIN store, "initials"),
                       LAMBDA card :
                         /\ card.initials # <<>>
                         /\ Has(card, "progressive_initials")
                         /\ \/ startsWith(card.initials, query)
                            \/ \E i \in 1..Len(card.progressive_initials) :
                                 card.progressive_initials[i] = query
                         /\ PassesFilter(card, setFilter)))

\* a scan of the whole store instead of the first letter's range
searchByMultiTokenAnyLetter(store, names, tokens, firstToken, setFilter, readError) ==
  IF firstToken = <<>> THEN Found(<<>>)
  ELSE IF "by_first_letter" \notin names \/ readError THEN Rejected
  ELSE Found(SelectSeq(IndexOrder(store, DOMAIN store, "first_letter"),
                       LAMBDA card :
                         /\ Has(card, "tokens")
                         /\ matchesTokenPrefixes(tokens, card.tokens)
                         /\ PassesFilter(card, setFilter)))

searchByMultiToken(store, names, tokens, firstToken, setFilter, readError) ==
  IF firstToken = <<>> THEN Found(<<>>)
  ELSE IF "by_first_letter" \notin names \/ readError THEN Rejected
  ELSE Found(SelectSeq(IndexOrder(store,
                                  {k \in DOMAIN store :
                                     /\ Has(store[k], "first_letter")
                                     /\ store[k].first_letter = SubSeq(firstToken, 1, 1)},
                                  "first_letter"),
                       LAMBDA card :
                         /\ Has(card, "tokens")
                         /\ matchesTokenPrefixes(tokens, card.tokens)
                         /\ PassesFilter(card, setFilter)))

\* the cursor of searchByBasic: it stops at maxResults results, and a record
\* without name_normalized throws inside the handler
RECURSIVE BasicScan(_, _, _, _, _, _)
BasicScan(recs, q, setFilter, maxResults, i, results) ==
  IF i > Len(recs) \/ Len(results) >= maxResults THEN Found(results)
  ELSE IF ~Has(recs[i], "name_normalized") THEN Pending
  ELSE BasicScan(recs, q, setFilter, maxResults, i + 1,
                 IF includes(recs[i].name_normalized, q) /\ PassesFilter(recs[i], setFilter)
                 THEN Append(results, recs[i]) ELSE results)

DefaultMaxResults == 20

searchByBasic(store, names, query, setFilter, maxResults) ==
  LET q == toLowerCase(Trim(query))
  IN IF q = <<>> THEN Found(<<>>)
     ELSE IF "by_first_letter" \notin names THEN Rejected
     ELSE BasicScan(IndexOrder(store,
                               {k \in DOMAIN store :
                                  /\ Has(store[k], "first_letter")
                                  /\ store[k].first_letter = SubSeq(q, 1, 1)},
                               "first_letter"),
                    q, setFilter, maxResults, 1, <<>>)

\* the cursor opened at lowerBound(query) runs while the key starts with query
RECURSIVE WhileKeyStartsWith(_, _, _)
WhileKeyStartsWith(recs, query, i) ==
  IF i > Len(recs) \/ ~startsWith(recs[i].search_normalized, query) THEN <<>>
  ELSE <<recs[i]>> \o WhileKeyStartsWith(recs, query, i + 1)

\* the missing index is caught inside and answered by the basic search; a
\* failed cursor request rejects the promise the method has returned
searchByPrefix(store, names, query, setFilter, readError) ==
  IF query = <<>> THEN Found(<<>>)
  ELSE IF "by_search_normalized" \notin names
  THEN searchByBasic(store, names, query, setFilter, DefaultMaxResults)
  ELSE IF readError THEN Rejected
  ELSE Found(SelectSeq(WhileKeyStartsWith(
                         IndexOrder(store,
                                    {k \in DOMAIN store :
                                       /\ Has(store[k], "search_normalized")
                                       /\ ~StrLess(store[k].search_normalized, query)},
                                    "search_normalized"),
                         query, 1),
                       LAMBDA card : PassesFilter(card, setFilter)))

FirstN(seq, n) == SubSeq(seq, 1, IF Len(seq) < n THEN Len(seq) ELSE n)

\* scored.sort((a, b) => a.score - b.score): ascending and stable
SortByScore(scored) ==
  LET n == Len(scored)
      rank(i) == 1 + Cardinality({j \in 1..n :
                        \/ scored[j].score < scored[i].score
                        \/ scored[j].score = scored[i].score /\ j < i})
  IN [p \in 1..n |-> scored[CHOOSE i \in 1..n : rank(i) = p].card]

\* a search that lets the failure of its strategy through
searchCardsNoFallback(store, names, query, activeSets, maxResults, readError) ==
  IF Trim(query) = <<>> THEN Found(<<>>)
  ELSE
    LET intent == detectSearchIntent(query)
        setFilter == SetFilter(activeSets)
        tried ==
          IF intent.strategy \in {"initials", "space_initials"}
          THEN searchByInitials(store, names, intent.query, setFilter, readError)
          ELSE IF intent.strategy = "multi_token"
          THEN searchByMultiToken(store, names, intent.tokens, intent.firstToken,
                                  setFilter, readError)
          ELSE IF intent.strategy = "prefix"
          THEN searchByPrefix(store, names, intent.query, setFilter, readError)
          ELSE searchByBasic(store, names, query, setFilter, DefaultMaxResults)
    IN IF tried.out = "ok" THEN Found(FirstN(tried.cards, maxResults)) ELSE tried

\* readError: the cursor request of the strategy's own scan fails
searchCards(store, names, query, activeSets, maxResults, readError) ==
  IF Trim(query) = <<>> THEN Found(<<>>)
  ELSE
    LET intent == detectSearchIntent(query)
        setFilter == SetFilter(activeSets)
        tried ==
          IF intent.strategy \in {"initials", "space_initials"}
          THEN searchByInitials(store, names, intent.query, setFilter, readError)
          ELSE IF intent.strategy = "multi_token"
          THEN searchByMultiToken(store, names, intent.tokens, intent.firstToken,
                                  setFilter, readError)
          ELSE IF intent.strategy = "prefix"
          THEN searchByPrefix(store, names, intent.query, setFilter, readError)
          ELSE searchByBasic(store, names, query, setFilter, DefaultMaxResults)
        candidates == tried.cards
        scored == [i \in 1..Len(candidates) |->
                     [card |-> candidates[i], score |-> scoreMatch(intent, candidates[i])]]
        sorted == IF Len(candidates) > 0 /\ intent.strategy # "prefix"
                  THEN SortByScore(scored) ELSE candidates
    IN IF tried.out = "ok" THEN Found(FirstN(sorted, maxResults))
       ELSE IF tried.out = "error"
       THEN searchByBasic(store, names, query, setFilter, maxResults)
       ELSE tried

\* ---------------------------------------------------------------------
\* Retrieval plans (object store "retrieval_plans", keyPath id,
\* autoIncrement).  `plans` maps the keys present to their records and
\* nextPlanId is the store's key generator, which never hands out a key twice.
\* ---------------------------------------------------------------------
\* the defaults of saveRetrievalPlan; 0 and <<>> stand for a missing field
WithPlanDefaults(plan, t) ==
  LET created == IF plan.created_at # 0 THEN plan.created_at ELSE t
  IN [plan EXCEPT !.created_at = created,
                  !.expires_at = IF @ # 0 THEN @ ELSE created + PlanTTL,
                  !.status = IF @ # <<>> THEN @ ELSE <<"a", "c", "t", "i", "v", "e">>]

\* store.add(plan): the stored plan carries the generated key
saveRetrievalPlan(pl, plan, key, t) ==
  Put(pl, key, [id |-> key] @@ WithPlanDefaults(plan, t))

getRetrievalPlan(pl, id) == IF id \in DOMAIN pl THEN Some(pl[id]) ELSE None

RECURSIVE KeysInOrder(_)
KeysInOrder(S) ==
  IF S = {} THEN <<>> ELSE <<SetMin(S)>> \o KeysInOrder(S \ {SetMin(S)})

\* store.getAll(): the records in key order
GetAll(store) == [i \in 1..Cardinality(DOMAIN store) |-> store[KeysInOrder(DOMAIN store)[i]]]

\* a filter that keeps the plan expiring at this very instant
getRetrievalPlansInclusive(pl, t) == SelectSeq(GetAll(pl), LAMBDA p : p.expires_at >= t)

getRetrievalPlans(pl, t) == SelectSeq(GetAll(pl), LAMBDA p : p.expires_at > t)

\* a toggle that ticks off the whole plan
updateRetrievalPlanItemAll(pl, planId, itemIndex, checked) ==
  IF /\ planId \in DOMAIN pl
     /\ itemIndex >= 0
     /\ itemIndex < Len(pl[planId].items)
  THEN [pl EXCEPT ![planId].items =
          [i \in 1..Len(pl[planId].items) |-> [@[i] EXCEPT !.checked = checked]]]
  ELSE pl

\* plan.items[itemIndex] with the source's 0-based index; a missing plan or
\* item leaves the store as it is
updateRetrievalPlanItem(pl, planId, itemIndex, checked) ==
  IF /\ planId \in DOMAIN pl
     /\ itemIndex >= 0
     /\ itemIndex < Len(pl[planId].items)
  THEN [pl EXCEPT ![planId].items[itemIndex + 1].checked = checked]
  ELSE pl

\* a sweep that spares the plan expiring at this very instant
ExpiredKeysStrict(pl, t) == {id \in DOMAIN pl : pl[id].expires_at < t}

ExpiredKeys(pl, t) == {id \in DOMAIN pl : pl[id].expires_at <= t}

\* the plans left and the number deleted
cleanExpiredPlans(pl, t) ==
  [plans |-> [id \in DOMAIN pl \ ExpiredKeys(pl, t) |-> pl[id]],
   deleted |-> Cardinality(ExpiredKeys(pl, t))]

deleteRetrievalPlan(pl, id) == [k \in DOMAIN pl \ {id} |-> pl[k]]

\* ---------------------------------------------------------------------
\* CHECKOUT_CARDS handler: the plan it builds from the returned records
\* ---------------------------------------------------------------------
\* new Date(now).toISOString().slice(0, 10): with days as the unit of time
\* the date is the rendering of the day number
DateStr(t) == NumToStr(t)

\* plan items that name where the card goes instead of where it is
PlanItemTarget(r) ==
  [emid |-> r.emid,
   echo_inventory_id |-> r.echo_inventory_id,
   current_location |-> Some(r.target_location),
   current_position |-> Some(r.target_position),
   checked |-> FALSE]

PlanItem(r) ==
  [emid |-> r.emid,
   echo_inventory_id |-> r.echo_inventory_id,
   current_location |-> r.source_location,
   current_position |-> r.source_position,
   checked |-> FALSE]

BuildPlan(records, loc, offset, t) ==
  [title |-> DateStr(t) \o <<" ">> \o loc,
   target_location |-> loc,
   target_offset |-> offset,
   created_at |-> t,
   expires_at |-> t + PlanTTL,
   status |-> <<"a", "c", "t", "i", "v", "e">>,
   items |-> [i \in 1..Len(records) |-> PlanItem(records[i])]]

\* ---------------------------------------------------------------------
\* State machine
\* ---------------------------------------------------------------------
\* req is the CHECKOUT_CARDS request in flight (one at a time): its position
\* in handleCheckoutCards and its local variables.  created (the keys the
\* store generated for the batch) and noteSync (what became of the remote
\* note synchronisation) are history fields the handler does not have.
\* resp is the last response sent to a CHECKOUT_CARDS request.  planned is a history variable: the keys
\* of the checkout records whose batch has had its retrieval plan saved.
IdleReq ==
  [pc |-> "idle", inventoryIds |-> <<>>, loc |-> <<>>, offset |-> 0,
   records |-> <<>>, created |-> <<>>, k |-> 0, storedNoteId |-> None,
   noteSync |-> "none"]

NoResp == [ok |-> FALSE, count |-> 0, planId |-> 0]

\* inventoryIds of a CHECKOUT_CARDS message: the overlay sends at least one
\* id; nothing keeps an id from being named twice
Batches == UNION {[1..n -> InvIds] : n \in 1..MaxBatch}

ImportRow(i) ==
  [echo_inventory_id |-> i, emid |-> 100 + i, note |-> ImportNote(i), note_id |-> None]

\* an import of the whole collection
ImportInputs == {<<ImportRow(1), ImportRow(2)>>}

\* ids of a CHECKIN_CARDS message: known and unknown keys, one key twice
CheckinInputs ==
  {<<k>> : k \in 1..(MaxCheckouts + 1)} \cup {<<1, 2>>, <<1, 1>>, <<2, MaxCheckouts + 1>>}

Init ==
  /\ inventory = EmptyStore
  /\ checkouts = <<>>
  /\ plans = EmptyStore
  /\ nextPlanId = 1
  /\ now = 1
  /\ req = IdleReq
  /\ resp = NoResp
  /\ planned = {}
  /\ cards = EmptyStore
  /\ sets = EmptyStore
  /\ indexNames = openDB(0, {})
  /\ stateStore = EmptyStore
  /\ epoch = NoEpoch
  /\ knownSets = NoKnownSets
  /\ overlay = ClosedOverlay

\* handleCheckoutCards up to the end of CardDB.checkoutCards
CheckoutStart(inventoryIds, targetLocation, targetOffset) ==
  /\ req.pc = "idle"
  /\ Len(checkouts) + Len(inventoryIds) <= MaxCheckouts
  /\ nextPlanId <= MaxPlans
  /\ LET loc == IF targetLocation # <<>> THEN targetLocation ELSE TagUnknown
         offset == IF targetOffset # 0 THEN targetOffset ELSE 1
         res == checkoutCards(inventory, checkouts, inventoryIds, loc, offset, now)
     IN /\ inventory' = res.inventory
        /\ checkouts' = res.checkouts
        /\ req' = [IdleReq EXCEPT !.pc = "token",
                                  !.inventoryIds = inventoryIds,
                                  !.loc = loc,
                                  !.offset = offset,
                                  !.records = res.records,
                                  !.created = [i \in 1..Len(inventoryIds) |->
                                                 Len(checkouts) + i]]
  /\ UNCHANGED <<plans, nextPlanId, now, resp, planned, cards, sets, indexNames, stateStore, epoch, knownSets, overlay>>

\* const t = await ensureToken(); the loop is entered only with a token
EnsureToken(t) ==
  /\ req.pc = "token"
  /\ req' = IF t /\ Len(req.records) > 0
            THEN [req EXCEPT !.pc = "lookup", !.k = 1, !.noteSync = "ok"]
            ELSE [req EXCEPT !.pc = "plan"]
  /\ UNCHANGED <<inventory, checkouts, plans, nextPlanId, now, resp, planned, cards, sets, indexNames, stateStore, epoch, knownSets, overlay>>

\* a handler without the inner try: a failed note call ends the request
AfterRecordAbort(r) ==
  IF r.noteSync = "failed" THEN IdleReq
  ELSE IF r.k < Len(r.records)
  THEN [r EXCEPT !.pc = "lookup", !.k = @ + 1, !.storedNoteId = None]
  ELSE [r EXCEPT !.pc = "plan", !.k = 0, !.storedNoteId = None]

AfterRecord(r) ==
  IF r.k < Len(r.records)
  THEN [r EXCEPT !.pc = "lookup", !.k = @ + 1, !.storedNoteId = None]
  ELSE [r EXCEPT !.pc = "plan", !.k = 0, !.storedNoteId = None]

\* loop head: if (rec.echo_inventory_id) { invItem = getInventoryItem(..) }
SyncLookup ==
  /\ req.pc = "lookup"
  /\ LET rec == req.records[req.k]
         invItem == getInventoryItem(inventory, rec.echo_inventory_id)
     IN req' = IF rec.echo_inventory_id = 0
               THEN AfterRecord(req)
               ELSE [req EXCEPT !.pc = "remote",
                                !.storedNoteId =
                                   IF invItem = None THEN None ELSE The(invItem).note_id]
  /\ UNCHANGED <<inventory, checkouts, plans, nextPlanId, now, resp, planned, cards, sets, indexNames, stateStore, epoch, knownSets, overlay>>

\* editNote / createNote and what follows it; outcome is what the remote
\* call does: "id" it answers with a note id, "noid" it answers without
\* one, "throws" it fails (caught by the inner try)
SyncRemote(outcome) ==
  /\ req.pc = "remote"
  /\ LET rec == req.records[req.k]
     IN /\ inventory' =
             IF req.storedNoteId = None /\ outcome = "id"
             THEN updateInventoryNoteIds(inventory,
                    <<[echo_inventory_id |-> rec.echo_inventory_id,
                       note_id |-> NewNoteId]>>)
             ELSE inventory
        /\ req' = AfterRecord([req EXCEPT !.noteSync =
                                 IF outcome = "throws" THEN "failed" ELSE @])
  /\ UNCHANGED <<checkouts, plans, nextPlanId, now, resp, planned, cards, sets, indexNames, stateStore, epoch, knownSets, overlay>>

\* build the plan, CardDB.saveRetrievalPlan, return { ok, count, planId }
SavePlan ==
  /\ req.pc = "plan"
  /\ plans' = saveRetrievalPlan(plans,
                 BuildPlan(req.records, req.loc, req.offset, now), nextPlanId, now)
  /\ nextPlanId' = nextPlanId + 1
  /\ resp' = [ok |-> TRUE, count |-> Len(req.records),
              planId |-> nextPlanId]
  /\ planned' = planned \cup {req.created[i] : i \in 1..Len(req.created)}
  /\ req' = IdleReq
  /\ UNCHANGED <<inventory, checkouts, now, cards, sets, indexNames, stateStore, epoch, knownSets, overlay>>

\* a check-in that also writes the return location into the inventory notes
CheckinCardsWritesNote(ids, locationTag, position) ==
  /\ checkouts' = checkinCards(checkouts, ids, locationTag, position, now).checkouts
  /\ inventory' = [k \in DOMAIN inventory |-> [inventory[k] EXCEPT !.note = locationTag]]
  /\ UNCHANGED <<plans, nextPlanId, now, req, resp, planned, cards, sets, indexNames, stateStore, epoch, knownSets, overlay>>

\* handleCheckinCards; it answers { ok: true, count: updated }
CheckinCards(ids, locationTag, position) ==
  /\ checkouts' = checkinCards(checkouts, ids, locationTag, position, now).checkouts
  /\ UNCHANGED <<inventory, plans, nextPlanId, now, req, resp, planned, cards, sets, indexNames, stateStore, epoch, knownSets, overlay>>

\* handleImportInventory
ImportInventory(records, storageError) ==
  /\ inventory' = importInventory(inventory, records, storageError).inventory
  /\ UNCHANGED <<checkouts, plans, nextPlanId, now, req, resp, planned, cards, sets, indexNames, stateStore, epoch, knownSets, overlay>>

\* handleClearInventory
ClearInventory ==
  /\ inventory' = EmptyStore
  /\ UNCHANGED <<checkouts, plans, nextPlanId, now, req, resp, planned, cards, sets, indexNames, stateStore, epoch, knownSets, overlay>>

\* handleDeleteRetrievalPlan
DeleteRetrievalPlan(id) ==
  /\ plans' = deleteRetrievalPlan(plans, id)
  /\ UNCHANGED <<inventory, checkouts, nextPlanId, now, req, resp, planned, cards, sets, indexNames, stateStore, epoch, knownSets, overlay>>

\* CardDB.cleanExpiredPlans
CleanExpiredPlans ==
  /\ plans' = cleanExpiredPlans(plans, now).plans
  /\ UNCHANGED <<inventory, checkouts, nextPlanId, now, req, resp, planned, cards, sets, indexNames, stateStore, epoch, knownSets, overlay>>

\* handleCacheSets, for one set: CardDB.cacheSet in one readwrite transaction
\* over ["cards", "sets"]
CacheSet(setCode, setName, rawCards) ==
  /\ LET res == cacheSet(cards, sets, setCode, setName, rawCards, now)
     IN /\ cards' = res.cards
        /\ sets' = res.sets
  /\ UNCHANGED ledgerVars
  /\ UNCHANGED <<indexNames, stateStore, epoch, knownSets, overlay>>

\* handleClearAll: CardDB.clearAll empties the card and the set store
ClearAll ==
  /\ cards' = EmptyStore
  /\ sets' = EmptyStore
  /\ UNCHANGED ledgerVars
  /\ UNCHANGED <<indexNames, stateStore, epoch, knownSets, overlay>>

\* the clock never runs backwards
Tick(d) ==
  /\ now + d <= MaxClock
  /\ now' = now + d
  /\ UNCHANGED <<inventory, checkouts, plans, nextPlanId, req, resp, planned, cards, sets, indexNames, stateStore, epoch, knownSets, overlay>>

Next ==
  \/ \E b \in Batches, tg \in TargetInputs : CheckoutStart(b, tg[1], tg[2])
  \/ \E t \in BOOLEAN : EnsureToken(t)
  \/ SyncLookup
  \/ \E o \in {"id", "noid", "throws"} : SyncRemote(o)
  \/ SavePlan
  \/ \E ids \in CheckinInputs, r \in ReturnInputs : CheckinCards(ids, r[1], r[2])
  \/ \E rs \in ImportInputs, e \in BOOLEAN : ImportInventory(rs, e)
  \/ ClearInventory
  \/ \E id \in 1..MaxPlans : DeleteRetrievalPlan(id)
  \/ CleanExpiredPlans
  \/ \E d \in TickSteps : Tick(d)

Spec == Init /\ [][Next]_vars

\* the ledger together with the card cache operations
RawCards == <<[emid |-> Some(101), name |-> <<"B", "o", "l", "t">>]>>

NextStores ==
  \/ Next
  \/ CacheSet(<<"F", "D", "N">>, <<"F">>, RawCards)
  \/ ClearAll

\* handleUpdatePlanItem
UpdateRetrievalPlanItem(planId, itemIndex, checked) ==
  /\ plans' = updateRetrievalPlanItem(plans, planId, itemIndex, checked)
  /\ UNCHANGED <<inventory, checkouts, nextPlanId, now, req, resp, planned, cards, sets, indexNames, stateStore, epoch, knownSets, overlay>>

\* the ledger together with the ticking off of plan items: the first item
\* and an index past the last one
NextPlans ==
  \/ Next
  \/ \E id \in 1..MaxPlans, k \in {0, MaxBatch} : UpdateRetrievalPlanItem(id, k, TRUE)

SpecPlans == Init /\ [][NextPlans]_vars

\* the ledger together with imports of a file that names one id twice and of
\* records of which one has no echo_inventory_id
ImportRowAgain == [ImportRow(1) EXCEPT !.note = <<"b", "p", "2">>]

ImportRowNoKey == [emid |-> 103, note |-> <<>>, note_id |-> None]

ImportCases ==
  ImportInputs \cup {<<ImportRow(1), ImportRowAgain>>, <<ImportRow(2), ImportRowNoKey>>}

NextImport ==
  \/ Next
  \/ \E rs \in ImportCases, e \in BOOLEAN : ImportInventory(rs, e)

SpecImport == Init /\ [][NextImport]_vars

\* ---------------------------------------------------------------------
\* Overlay start-up
\* ---------------------------------------------------------------------
\* the step of loadState commented "Clean up expired retrieval plans": it
\* sends GET_RETRIEVAL_PLANS, and handleGetRetrievalPlans answers
\* { ok: true, plans } from the read-only CardDB.getRetrievalPlans
LoadState ==
  /\ resp' = [ok |-> TRUE, plans |-> getRetrievalPlans(plans, now)]
  /\ UNCHANGED <<inventory, checkouts, plans, nextPlanId, now, req, planned, cards, sets, indexNames, stateStore, epoch, knownSets, overlay>>

\* checkouts that save plans, the clock, explicit deletes and start-ups
NextStartup ==
  \/ \E rs \in ImportInputs : ImportInventory(rs, FALSE)
  \/ \E b \in Batches, tg \in TargetInputs : CheckoutStart(b, tg[1], tg[2])
  \/ EnsureToken(FALSE)
  \/ SavePlan
  \/ \E id \in 1..MaxPlans : DeleteRetrievalPlan(id)
  \/ \E d \in TickSteps : Tick(d)
  \/ LoadState

SpecStartup == Init /\ [][NextStartup]_vars

\* ---------------------------------------------------------------------
\* Checkout transactions and the transactions that read beside them.  A
\* transaction over stores that a running readwrite transaction covers
\* starts when that one has finished, and a readwrite transaction waits for
\* the readonly ones over its stores; the writes of a transaction reach the
\* stores when it completes, and none of them does when it aborts.
\* ---------------------------------------------------------------------
SetMax(S) == CHOOSE m \in S : \A x \in S : x <= m

\* the positions that getInventoryLocations sees for a tag: in the notes,
\* and as targets of the records still out
PositionsAt(invAll, cos, tag) ==
  {The(parseNoteLocation(invAll[k].note).position) :
     k \in {j \in DOMAIN invAll : parseNoteLocation(invAll[j].note).tag = Some(tag)}}
  \cup {cos[i].target_position :
          i \in {j \in DOMAIN cos : cos[j].status = "out" /\ cos[j].target_location = tag}}

\* Map of locationTag -> maxPosition; a tag enters the map with a position
\* above 0
getInventoryLocations(invAll, cos) ==
  LET tags == {The(parseNoteLocation(invAll[k].note).tag) :
                 k \in {j \in DOMAIN invAll : parseNoteLocation(invAll[j].note).tag # None}}
              \cup {cos[i].target_location :
                      i \in {j \in DOMAIN cos : cos[j].status = "out"
                                                /\ cos[j].target_location # <<>>}}
  IN [t \in {u \in tags : \E n \in PositionsAt(invAll, cos, u) : n > 0} |->
        SetMax(PositionsAt(invAll, cos, t))]

\* the readers: getInventoryLocations reads the inventory and then the
\* checkouts in one transaction, getCheckoutGroups reads the checkouts
ReadOps == {"locations", "groups"}

\* a readonly transaction is open between its first and its last request
ReaderOpen == "phase" \in DOMAIN resp /\ resp.phase = "first"

\* the readwrite transaction of checkoutCards is open
WriterOpen == req.pc = "tx"

\* db.transaction(["checkouts", "inventory"], "readwrite")
CheckoutBegin(inventoryIds, targetLocation, targetOffset) ==
  /\ req.pc = "idle"
  /\ ~ReaderOpen
  /\ Len(checkouts) + Len(inventoryIds) <= MaxCheckouts
  /\ nextPlanId <= MaxPlans
  /\ req' = [IdleReq EXCEPT !.pc = "tx",
                            !.inventoryIds = inventoryIds,
                            !.loc = IF targetLocation # <<>> THEN targetLocation
                                    ELSE TagUnknown,
                            !.offset = IF targetOffset # 0 THEN targetOffset ELSE 1]
  /\ UNCHANGED <<inventory, checkouts, plans, nextPlanId, now, resp, planned, cards, sets, indexNames, stateStore, epoch, knownSets, overlay>>

\* a loop body that runs in a transaction of its own
checkoutPutCommitted(inv, cos, r) ==
  LET res == checkoutCards(inv, cos, <<r.inventoryIds[r.k + 1]>>, r.loc, r.offset + r.k, now)
  IN [inventory |-> res.inventory, checkouts |-> res.checkouts]

\* the stores after one turn of the loop: checkoutStore.put(rec) and
\* invStore.put(inv) are requests of the open transaction
checkoutPut(inv, cos, r) == [inventory |-> inv, checkouts |-> cos]

\* one turn of the loop of checkoutCards
CheckoutPut ==
  /\ req.pc = "tx"
  /\ req.k < Len(req.inventoryIds)
  /\ LET res == checkoutPut(inventory, checkouts, req)
     IN /\ inventory' = res.inventory
        /\ checkouts' = res.checkouts
  /\ req' = [req EXCEPT !.k = @ + 1]
  /\ UNCHANGED <<plans, nextPlanId, now, resp, planned, cards, sets, indexNames, stateStore, epoch, knownSets, overlay>>

\* await txComplete(tx): the writes of the loop reach both stores
CheckoutCommit ==
  /\ req.pc = "tx"
  /\ req.k = Len(req.inventoryIds)
  /\ LET res == checkoutCards(inventory, checkouts, req.inventoryIds, req.loc, req.offset, now)
     IN /\ inventory' = res.inventory
        /\ checkouts' = res.checkouts
        /\ req' = [req EXCEPT !.pc = "token",
                              !.k = 0,
                              !.records = res.records,
                              !.created = [i \in 1..Len(req.inventoryIds) |->
                                             Len(checkouts) + i]]
  /\ UNCHANGED <<plans, nextPlanId, now, resp, planned, cards, sets, indexNames, stateStore, epoch, knownSets, overlay>>

\* a request of the transaction fails: tx.onerror / tx.onabort reject the
\* call, handleCheckoutCards answers { ok: false }, nothing is written
CheckoutAbort ==
  /\ req.pc = "tx"
  /\ req' = IdleReq
  /\ UNCHANGED <<inventory, checkouts, plans, nextPlanId, now, resp, planned, cards, sets, indexNames, stateStore, epoch, knownSets, overlay>>

\* the first request of a reader, in a transaction that waits for the writer
ReadFirst(op) ==
  /\ ~WriterOpen
  /\ ~ReaderOpen
  /\ resp' = IF op = "locations"
             THEN [ok |-> FALSE, op |-> op, phase |-> "first",
                   invAll |-> inventory, checkouts |-> <<>>]
             ELSE [ok |-> TRUE, op |-> op, phase |-> "done",
                   invAll |-> EmptyStore, checkouts |-> checkouts,
                   groups |-> getCheckoutGroups(checkouts)]
  /\ UNCHANGED <<inventory, checkouts, plans, nextPlanId, now, req, planned, cards, sets, indexNames, stateStore, epoch, knownSets, overlay>>

\* the second request of getInventoryLocations and its answer
ReadSecond ==
  /\ ReaderOpen
  /\ resp' = [ok |-> TRUE, op |-> resp.op, phase |-> "done",
              invAll |-> resp.invAll, checkouts |-> checkouts,
              locations |-> getInventoryLocations(resp.invAll, checkouts)]
  /\ UNCHANGED <<inventory, checkouts, plans, nextPlanId, now, req, planned, cards, sets, indexNames, stateStore, epoch, knownSets, overlay>>

\* batches of two cards
PairBatches == {<<1, 2>>, <<2, 1>>}

InitReaders ==
  /\ inventory = importInventory(EmptyStore, <<ImportRow(1), ImportRow(2)>>, FALSE).inventory
  /\ checkouts = <<>>
  /\ plans = EmptyStore
  /\ nextPlanId = 1
  /\ now = 1
  /\ req = IdleReq
  /\ resp = NoResp
  /\ planned = {}
  /\ cards = EmptyStore
  /\ sets = EmptyStore
  /\ indexNames = openDB(0, {})
  /\ stateStore = EmptyStore
  /\ epoch = NoEpoch
  /\ knownSets = NoKnownSets
  /\ overlay = ClosedOverlay

NextReaders ==
  \/ \E b \in PairBatches, tg \in TargetInputs : CheckoutBegin(b, tg[1], tg[2])
  \/ CheckoutPut
  \/ CheckoutCommit
  \/ CheckoutAbort
  \/ EnsureToken(FALSE)
  \/ SavePlan
  \/ \E ids \in CheckinInputs, r \in ReturnInputs : CheckinCards(ids, r[1], r[2])
  \/ \E op \in ReadOps : ReadFirst(op)
  \/ ReadSecond

SpecReaders == InitReaders /\ [][NextReaders]_vars

\* ---------------------------------------------------------------------
\* The ledger with a history of when the inventory was last replaced
\* ---------------------------------------------------------------------
\* handleImportInventory, the history noting how many records there are
ImportInventoryAt(records) ==
  /\ inventory' = importInventory(inventory, records, FALSE).inventory
  /\ epoch' = [epoch EXCEPT !.import = Len(checkouts)]
  /\ UNCHANGED <<checkouts, plans, nextPlanId, now, req, resp, planned, cards, sets, indexNames, stateStore, knownSets, overlay>>

\* handleClearInventory, the history noting how many records there are
ClearInventoryAt ==
  /\ inventory' = EmptyStore
  /\ epoch' = [epoch EXCEPT !.clear = Len(checkouts)]
  /\ UNCHANGED <<checkouts, plans, nextPlanId, now, req, resp, planned, cards, sets, indexNames, stateStore, knownSets, overlay>>

NextSources ==
  \/ \E rs \in ImportInputs : ImportInventoryAt(rs)
  \/ ClearInventoryAt
  \/ \E b \in Batches, tg \in TargetInputs : CheckoutStart(b, tg[1], tg[2])
  \/ \E t \in BOOLEAN : EnsureToken(t)
  \/ SyncLookup
  \/ \E o \in {"id", "noid", "throws"} : SyncRemote(o)
  \/ SavePlan
  \/ \E ids \in CheckinInputs, r \in ReturnInputs : CheckinCards(ids, r[1], r[2])

SpecSources == Init /\ [][NextSources]_vars

\* ---------------------------------------------------------------------
\* Location notes: inventories whose note is any tag and position in the
\* note format, or a note outside the format
\* ---------------------------------------------------------------------
MaxTagLen == 3

MaxPosition == 12

TagChars == {"a", "p", "1", " "}

\* location tags as the overlay sends them: the trimmed, non-empty value of
\* a single-line text input
LocationTags ==
  {t \in UNION {[1..n -> TagChars] : n \in 1..MaxTagLen} :
      t[1] # " " /\ t[Len(t)] # " "}

Positions == 0..MaxPosition

\* notes outside the format, as a CSV row may carry them
OtherNotes ==
  {<<>>, <<"a">>, <<"p">>, <<"p", "1">>, <<"a", "p">>, <<"a", "1">>, <<"1", "p">>,
   <<" ">>, <<"a", "p", " ", "1">>, <<"a", "p", "1", "a">>, <<"a", "\n", "p", "1">>,
   <<"a", "P", "1">>}

NoteCases == {NoteText(t, n) : t \in LocationTags, n \in Positions} \cup OtherNotes

InitNotes ==
  /\ inventory \in {[k \in {1} |-> [ImportRow(1) EXCEPT !.note = n]] : n \in NoteCases}
  /\ checkouts = <<>>
  /\ plans = EmptyStore
  /\ nextPlanId = 1
  /\ now = 1
  /\ req = IdleReq
  /\ resp = NoResp
  /\ planned = {}
  /\ cards = EmptyStore
  /\ sets = EmptyStore
  /\ indexNames = openDB(0, {})
  /\ stateStore = EmptyStore
  /\ epoch = NoEpoch
  /\ knownSets = NoKnownSets
  /\ overlay = ClosedOverlay

\* checkouts read the note of the record and write a new one
NextNotes ==
  \/ \E tg \in TargetInputs : CheckoutStart(<<1>>, tg[1], tg[2])
  \/ EnsureToken(FALSE)
  \/ SavePlan

SpecNotes == InitNotes /\ [][NextNotes]_vars

\* check-ins with and without a return location and a return position
ReturnCases == {<<<<"a">>, 2>>, <<<<>>, 0>>, <<<<>>, 1>>}

\* the locations query over notes with and without a location, at position
\* 0 and above, and records out and checked in again
LocationNotes ==
  {NoteText(<<"a">>, 0), NoteText(<<"a">>, 1), NoteText(TagD, 0), NoteText(TagD, 3),
   <<>>, <<"a">>}

InitLocations ==
  /\ inventory \in {[k \in {1} |-> [ImportRow(1) EXCEPT !.note = n]] : n \in LocationNotes}
  /\ checkouts = <<>>
  /\ plans = EmptyStore
  /\ nextPlanId = 1
  /\ now = 1
  /\ req = IdleReq
  /\ resp = NoResp
  /\ planned = {}
  /\ cards = EmptyStore
  /\ sets = EmptyStore
  /\ indexNames = openDB(0, {})
  /\ stateStore = EmptyStore
  /\ epoch = NoEpoch
  /\ knownSets = NoKnownSets
  /\ overlay = ClosedOverlay

NextLocations ==
  \/ \E b \in Batches, tg \in TargetInputs : CheckoutStart(b, tg[1], tg[2])
  \/ EnsureToken(FALSE)
  \/ SavePlan
  \/ \E ids \in CheckinInputs, r \in ReturnCases : CheckinCards(ids, r[1], r[2])

SpecLocations == InitLocations /\ [][NextLocations]_vars

\* ---------------------------------------------------------------------
\* The offset the overlay proposes for a location
\* ---------------------------------------------------------------------
\* the first occurrence of every element, in order
RECURSIVE FirstOccurrences(_, _)
FirstOccurrences(seq, seen) ==
  IF seq = <<>> THEN <<>>
  ELSE IF Head(seq) \in seen THEN FirstOccurrences(Tail(seq), seen)
  ELSE <<Head(seq)>> \o FirstOccurrences(Tail(seq), seen \cup {Head(seq)})

\* the keys of the Map in insertion order: a tag is inserted by the first
\* note, then by the first record out, that names it at a position above 0
LocationOrder(invAll, cos) ==
  LET notes == GetAll(invAll)
      parsed == [i \in DOMAIN notes |-> parseNoteLocation(notes[i].note)]
      fromNotes == SelectSeq(parsed, LAMBDA l : l.tag # None /\ The(l.position) > 0)
      fromOut == SelectSeq(cos, LAMBDA r : r.status = "out" /\ r.target_location # <<>>
                                           /\ r.target_position > 0)
  IN FirstOccurrences([i \in DOMAIN fromNotes |-> The(fromNotes[i].tag)]
                        \o [i \in DOMAIN fromOut |-> fromOut[i].target_location],
                      {})

\* handleGetInventoryLocations: the Map as an array of { tag, maxPosition }
GetInventoryLocations(invAll, cos) ==
  LET m == getInventoryLocations(invAll, cos)
      order == LocationOrder(invAll, cos)
  IN [i \in DOMAIN order |-> [tag |-> order[i], maxPosition |-> m[order[i]]]]

\* the value of the offset input for the entered location: inventoryLocations
\* .find compares the lower-cased tags and takes the first match; the input
\* handler puts 1 for a location without a match
refreshLocationOffset(locations, current) ==
  LET hits == {i \in DOMAIN locations :
                 toLowerCase(locations[i].tag) = toLowerCase(current)}
  IN IF hits # {} THEN locations[SetMin(hits)].maxPosition + 1 ELSE 1

\* the click on the checkout button once the location has been typed and
\* the locations have been loaded
CheckoutAtOffset(inventoryIds, current) ==
  CheckoutStart(inventoryIds, current,
                refreshLocationOffset(GetInventoryLocations(inventory, checkouts), current))

\* two stored items whose notes differ
OffsetNotes ==
  {NoteText(<<"a">>, 1), NoteText(<<"a">>, 2), NoteText(<<"A">>, 3), NoteText(TagD, 1),
   <<"a">>}

EnteredLocations == {<<"a">>, <<"A">>, TagD}

DistinctBatches == {b \in Batches : \A i, j \in DOMAIN b : i # j => b[i] # b[j]}

InitOffsets ==
  /\ inventory \in {[k \in {1, 2} |-> [ImportRow(k) EXCEPT !.note = n[k]]] :
                      n \in {f \in [{1, 2} -> OffsetNotes] : f[1] # f[2]}}
  /\ checkouts = <<>>
  /\ plans = EmptyStore
  /\ nextPlanId = 1
  /\ now = 1
  /\ req = IdleReq
  /\ resp = NoResp
  /\ planned = {}
  /\ cards = EmptyStore
  /\ sets = EmptyStore
  /\ indexNames = openDB(0, {})
  /\ stateStore = EmptyStore
  /\ epoch = NoEpoch
  /\ knownSets = NoKnownSets
  /\ overlay = ClosedOverlay

NextOffsets ==
  \/ \E b \in DistinctBatches, loc \in EnteredLocations : CheckoutAtOffset(b, loc)
  \/ EnsureToken(FALSE)
  \/ SavePlan
  \/ \E ids \in CheckinInputs, r \in ReturnCases : CheckinCards(ids, r[1], r[2])

SpecOffsets == InitOffsets /\ [][NextOffsets]_vars

\* ---------------------------------------------------------------------
\* Card names: the pieces a catalogue name is made of, in any arrangement
\* ---------------------------------------------------------------------
MaxPieces == 3

NamePieces ==
  {EmblemPrefix, <<"G">>, TokenSuffix, <<" ", "(", "1", "2", ")">>,
   <<" ", "(", "S", "h", "o", "w", "c", "a", "s", "e", ")">>,
   <<" ", "/", "/", " ">>}

RECURSIVE Join(_)
Join(ps) == IF ps = <<>> THEN <<>> ELSE Head(ps) \o Join(Tail(ps))

\* names with a letter in them
RawNames ==
  {n \in {Join(ps) : ps \in UNION {[1..k -> NamePieces] : k \in 1..MaxPieces}} :
      Trim(n) # <<>>}

\* one cached set of one card, under any of the names
NextNames ==
  \/ \E n \in RawNames : CacheSet(<<"F", "D", "N">>, <<"F">>, <<[emid |-> Some(1), name |-> n]>>)
  \/ ClearAll

SpecNames == Init /\ [][NextNames]_vars

\* ---------------------------------------------------------------------
\* The state store: records { key, value } under the key path "key"
\* ---------------------------------------------------------------------
StateKeys == {"position"}

StateValues == {1, 2}

\* a write that leaves nothing but its own record in the store
setStateAlone(store, key, value) == Put(EmptyStore, key, [key |-> key, value |-> value])

\* CardDB.setState: put({ key, value }) in a transaction over "state"
setState(store, key, value) == Put(store, key, [key |-> key, value |-> value])

\* handleSetState
SetState(key, value) ==
  /\ stateStore' = setState(stateStore, key, value)
  /\ UNCHANGED ledgerVars
  /\ UNCHANGED <<cards, sets, indexNames, epoch, knownSets, overlay>>

\* CardDB.getState: record?.value, None standing for undefined
getState(store, key) == IF key \in DOMAIN store THEN Some(store[key].value) ELSE None

\* CardDB.getStates: result[key] = record?.value for each key in turn
RECURSIVE GetStatesLoop(_, _, _, _)
GetStatesLoop(store, keys, i, result) ==
  IF i > Len(keys) THEN result
  ELSE GetStatesLoop(store, keys, i + 1,
         [k \in DOMAIN result \cup {keys[i]} |->
            IF k = keys[i]
            THEN (IF keys[i] \in DOMAIN store THEN Some(store[keys[i]].value) ELSE None)
            ELSE result[k]])

getStates(store, keys) == GetStatesLoop(store, keys, 1, EmptyStore)

\* the keys the overlay persists, one that is never written, and values
KvKeys == {"locationTag", "position", "dividerEvery"}

KvMissing == "missing"

KvValues == {1, 2, 42, 99}

KeyLists ==
  {<<"locationTag", "position", "missing">>, <<"position", "position">>,
   <<"dividerEvery">>, <<>>}

NextState ==
  \/ \E k \in KvKeys, v \in KvValues : SetState(k, v)
  \/ ClearAll
  \/ CacheSet(<<"F", "D", "N">>, <<"F">>, RawCards)

SpecState == Init /\ [][NextState]_vars

\* the ledger, one cached set and the state store side by side
NextCheckin ==
  \/ \E rs \in ImportInputs : ImportInventory(rs, FALSE)
  \/ \E b \in Batches, tg \in TargetInputs : CheckoutStart(b, tg[1], tg[2])
  \/ EnsureToken(FALSE)
  \/ SavePlan
  \/ \E ids \in CheckinInputs, r \in ReturnCases : CheckinCards(ids, r[1], r[2])
  \/ \E k \in StateKeys, v \in StateValues : SetState(k, v)
  \/ CacheSet(<<"F", "D", "N">>, <<"F">>, RawCards)

SpecCheckin == Init /\ [][NextCheckin]_vars

\* ---------------------------------------------------------------------
\* The card cache on its own
\* ---------------------------------------------------------------------
SetFDN == <<"F", "D", "N">>
SetDsk == <<"d", "s", "k">>
SetCodes == {SetFDN, SetDsk}

Card1 == [emid |-> Some(1), name |-> <<"L", "i", " ", "B", "o", " ", "R", "a">>]
Card2 == [emid |-> Some(2), name |-> <<"L", "i", " ", "B", "o">>]
Card3 == [emid |-> Some(3), name |-> <<"C", "o">>]
CardNoId == [emid |-> None, name |-> <<"L", "i">>]

\* what getSetAll answers: a set, a shorter answer for it, and an answer
\* with a row that has no emid
RowLists == {<<Card1, Card2>>, <<Card1>>, <<Card3, CardNoId>>}

\* handleClearSet
ClearSet(setCode) ==
  /\ LET res == clearSet(cards, sets, setCode)
     IN /\ cards' = res.cards
        /\ sets' = res.sets
  /\ UNCHANGED ledgerVars
  /\ UNCHANGED <<indexNames, stateStore, epoch, knownSets, overlay>>

\* handleSetSetActive
SetSetActive(setCode, active) ==
  /\ sets' = setSetActive(sets, setCode, active)
  /\ UNCHANGED <<cards, indexNames, stateStore, epoch, knownSets, overlay, inventory, checkouts, plans, nextPlanId, now, req, resp, planned>>

\* handleMigrateSearchSchema
MigrateSearchSchema ==
  /\ cards' = migrateSearchSchema(cards).cards
  /\ UNCHANGED <<sets, indexNames, stateStore, epoch, knownSets, overlay, inventory, checkouts, plans, nextPlanId, now, req, resp, planned>>

\* a card as the first release stored it: the fields of its three indexes and
\* of its search by first letter, none of the later search fields
V1Record(raw, setCode, setName) ==
  [emid |-> The(raw.emid),
   name |-> raw.name,
   name_lower |-> toLowerCase(raw.name),
   name_normalized |-> toLowerCase(raw.name),
   first_letter |-> SubSeq(toLowerCase(raw.name), 1, 1),
   set_code |-> setCode,
   set_name |-> setName]

Card9 == [emid |-> Some(9), name |-> <<"L", "o", " ", "B", "o">>]

V1Cards == (9 :> V1Record(Card9, SetFDN, <<"F">>))

V1Sets ==
  (SetFDN :> [set_code |-> SetFDN, set_name |-> <<"F">>, card_count |-> 1,
              cached_at |-> 1, active |-> TRUE])

\* the database of the first release, empty or with one cached set, opened by
\* this release
InitUpgraded ==
  /\ inventory = EmptyStore
  /\ checkouts = <<>>
  /\ plans = EmptyStore
  /\ nextPlanId = 1
  /\ now = 1
  /\ req = IdleReq
  /\ resp = NoResp
  /\ planned = {}
  /\ \/ cards = EmptyStore /\ sets = EmptyStore
     \/ cards = V1Cards /\ sets = V1Sets
  /\ indexNames = openDB(1, V1Indexes)
  /\ stateStore = EmptyStore
  /\ epoch = NoEpoch
  /\ knownSets = NoKnownSets
  /\ overlay = ClosedOverlay

NextCache ==
  \/ \E c \in SetCodes, rows \in RowLists : CacheSet(c, SubSeq(c, 1, 1), rows)
  \/ \E c \in SetCodes : ClearSet(c)
  \/ \E c \in SetCodes, a \in BOOLEAN : SetSetActive(c, a)
  \/ ClearAll
  \/ MigrateSearchSchema

\* a record that lacks every derived search field
MalformedRecord(raw, setCode, setName) ==
  [emid |-> The(raw.emid),
   name |-> raw.name,
   name_lower |-> toLowerCase(raw.name),
   first_letter |-> SubSeq(toLowerCase(raw.name), 1, 1),
   set_code |-> setCode,
   set_name |-> setName]

\* an upgraded database whose cached set holds such a record
InitMalformed ==
  /\ inventory = EmptyStore
  /\ checkouts = <<>>
  /\ plans = EmptyStore
  /\ nextPlanId = 1
  /\ now = 1
  /\ req = IdleReq
  /\ resp = NoResp
  /\ planned = {}
  /\ cards = (9 :> MalformedRecord(Card9, SetFDN, <<"F">>))
  /\ sets = V1Sets
  /\ indexNames = openDB(1, V1Indexes)
  /\ stateStore = EmptyStore
  /\ epoch = NoEpoch
  /\ knownSets = NoKnownSets
  /\ overlay = ClosedOverlay

SpecMalformed == InitMalformed /\ [][NextCache]_vars

\* a database created by this release or taken over from the first one
SpecCache == (Init \/ InitUpgraded) /\ [][NextCache]_vars

\* a cache of the first release to which this release adds sets of up to
\* five cards with smaller keys
Card4 == [emid |-> Some(4), name |-> <<"R", "a">>]
Card5 == [emid |-> Some(5), name |-> <<"B", "o">>]

FiveCards == <<Card1, Card2, Card3, Card4, Card5>>

MigrationRows == {SubSeq(FiveCards, 1, j) : j \in 1..5} \cup {SubSeq(FiveCards, 4, 5)}

InitMigration ==
  /\ inventory = EmptyStore
  /\ checkouts = <<>>
  /\ plans = EmptyStore
  /\ nextPlanId = 1
  /\ now = 1
  /\ req = IdleReq
  /\ resp = NoResp
  /\ planned = {}
  /\ cards = V1Cards
  /\ sets = V1Sets
  /\ indexNames = openDB(1, V1Indexes)
  /\ stateStore = EmptyStore
  /\ epoch = NoEpoch
  /\ knownSets = NoKnownSets
  /\ overlay = ClosedOverlay

NextMigration ==
  \/ \E c \in SetCodes, rows \in MigrationRows : CacheSet(c, SubSeq(c, 1, 1), rows)
  \/ \E c \in SetCodes : ClearSet(c)
  \/ MigrateSearchSchema

SpecMigration == InitMigration /\ [][NextMigration]_vars

\* the same cache, to which this release adds cards whose name holds stop
\* words only (extractTokens gives no token for it, generateInitials "")
CardOf == [emid |-> Some(6), name |-> <<"O", "f">>]

ConvergeRows == {<<Card1>>, <<Card1, Card2>>, <<CardOf>>, <<Card2, CardOf>>}

NextConverge ==
  \/ \E c \in SetCodes, rows \in ConvergeRows : CacheSet(c, SubSeq(c, 1, 1), rows)
  \/ \E c \in SetCodes : ClearSet(c)
  \/ MigrateSearchSchema

SpecConverge == InitMigration /\ [][NextConverge]_vars


\* ---------------------------------------------------------------------
\* Known sets (SetManager, handleGetKnownSets, handleRefreshKnownSets)
\* A set list is a sequence of [code, name]; knownSets.storage is {} or
\* {[sets, timestamp]}, knownSets.cachedSets and knownSets.lastFetch are
\* the fields _cachedSets and _lastFetch ({} for null).
\* ---------------------------------------------------------------------
\* 24 hours, in days
CacheDuration == 1

getFallbackSets ==
  <<[code |-> "FDN", name |-> "Foundations"],
    [code |-> "DSK", name |-> "Duskmourn: House of Horror"],
    [code |-> "BLB", name |-> "Bloomburrow"],
    [code |-> "MH3", name |-> "Modern Horizons 3"],
    [code |-> "OTJ", name |-> "Outlaws of Thunder Junction"],
    [code |-> "MKM", name |-> "Murders at Karlov Manor"],
    [code |-> "LCI", name |-> "The Lost Caverns of Ixalan"],
    [code |-> "WOE", name |-> "Wilds of Eldraine"],
    [code |-> "LTR", name |-> "The Lord of the Rings"],
    [code |-> "MOM", name |-> "March of the Machine"]>>

\* (Date.now() - timestamp) < CACHE_DURATION_MS; a timestamp 0 is falsy
isCacheFresh(timestamp, t) ==
  timestamp # 0 /\ (t - timestamp) < CacheDuration

\* new Map(list.map(set => [set.code, set.name])): a later entry of a code
\* replaces an earlier one
MapOfSets(list) ==
  [c \in {list[i].code : i \in DOMAIN list} |->
     list[SetMax({i \in DOMAIN list : list[i].code = c})].name]

setsEqual(oldSets, newSets) ==
  LET oldMap == MapOfSets(oldSets)
      newMap == MapOfSets(newSets)
  IN /\ Len(oldSets) = Len(newSets)
     /\ Cardinality(DOMAIN oldMap) = Cardinality(DOMAIN newMap)
     /\ \A c \in DOMAIN oldMap : c \in DOMAIN newMap /\ newMap[c] = oldMap[c]

\* {sets, timestamp} when both keys hold a truthy value, null otherwise
loadCachedSets(storage) ==
  IF storage # None /\ The(storage).timestamp # 0 THEN storage ELSE None

cacheSets(list, t) == Some([sets |-> list, timestamp |-> t])

\* a loadSets that prefers the static list to a stale persisted one
loadSetsFallbackFirst(ks, forceRefresh, fetched, t) ==
  LET cachedSets == loadCachedSets(ks.storage)
      freshSets == IF fetched = None THEN <<>> ELSE The(fetched)
  IN IF ~forceRefresh /\ cachedSets # None /\ Len(The(cachedSets).sets) > 0
        /\ isCacheFresh(The(cachedSets).timestamp, t)
     THEN [sets |-> The(cachedSets).sets,
           knownSets |-> [ks EXCEPT !.cachedSets = Some(The(cachedSets).sets),
                                    !.lastFetch = Some(The(cachedSets).timestamp)]]
     ELSE IF Len(freshSets) > 0
     THEN [sets |-> freshSets,
           knownSets |-> [storage |-> cacheSets(freshSets, t),
                          cachedSets |-> Some(freshSets),
                          lastFetch |-> Some(t)]]
     ELSE [sets |-> getFallbackSets,
           knownSets |-> [ks EXCEPT !.cachedSets = Some(getFallbackSets)]]

\* fetched is {} when fetchAllSets throws, {list} when it answers
loadSets(ks, forceRefresh, fetched, t) ==
  LET cachedSets == loadCachedSets(ks.storage)
      freshSets == IF fetched = None THEN <<>> ELSE The(fetched)
      hasChanges == ~setsEqual(IF cachedSets = None THEN <<>> ELSE The(cachedSets).sets,
                               freshSets)
  IN IF ~forceRefresh /\ cachedSets # None /\ Len(The(cachedSets).sets) > 0
        /\ isCacheFresh(The(cachedSets).timestamp, t)
     THEN [sets |-> The(cachedSets).sets,
           knownSets |-> [ks EXCEPT !.cachedSets = Some(The(cachedSets).sets),
                                    !.lastFetch = Some(The(cachedSets).timestamp)]]
     ELSE IF Len(freshSets) > 0
     THEN [sets |-> freshSets,
           knownSets |-> [storage |-> IF hasChanges \/ forceRefresh
                                      THEN cacheSets(freshSets, t) ELSE ks.storage,
                          cachedSets |-> Some(freshSets),
                          lastFetch |-> Some(t)]]
     ELSE IF cachedSets # None /\ Len(The(cachedSets).sets) > 0
     THEN [sets |-> The(cachedSets).sets,
           knownSets |-> [ks EXCEPT !.cachedSets = Some(The(cachedSets).sets),
                                    !.lastFetch = Some(The(cachedSets).timestamp)]]
     ELSE [sets |-> getFallbackSets,
           knownSets |-> [ks EXCEPT !.cachedSets = Some(getFallbackSets)]]

\* handleGetKnownSets
GetKnownSets(forceRefresh, fetched) ==
  /\ LET res == loadSets(knownSets, forceRefresh, fetched, now)
     IN /\ knownSets' = res.knownSets
        /\ resp' = [ok |-> TRUE, sets |-> res.sets]
  /\ UNCHANGED <<inventory, checkouts, plans, nextPlanId, now, req, planned, cards, sets, indexNames, stateStore, epoch, overlay>>

\* handleRefreshKnownSets: chrome.storage.local.remove of both keys, then
\* loadSets(true)
RefreshKnownSets(fetched) ==
  /\ LET res == loadSets([knownSets EXCEPT !.storage = None], TRUE, fetched, now)
     IN /\ knownSets' = res.knownSets
        /\ resp' = [ok |-> TRUE, sets |-> res.sets]
  /\ UNCHANGED <<inventory, checkouts, plans, nextPlanId, now, req, planned, cards, sets, indexNames, stateStore, epoch, overlay>>

\* what the listing page yields: one set, two sets, the two in the other
\* order, no set
ListA == <<[code |-> "FDN", name |-> "Foundations"]>>
ListB == <<[code |-> "DSK", name |-> "Duskmourn"], [code |-> "FDN", name |-> "Foundations"]>>
ListBRev == <<ListB[2], ListB[1]>>

FetchOutcomes == {None, Some(<<>>), Some(ListA), Some(ListB), Some(ListBRev)}

NextSets ==
  \/ \E f \in BOOLEAN, fetched \in FetchOutcomes : GetKnownSets(f, fetched)
  \/ \E fetched \in FetchOutcomes : RefreshKnownSets(fetched)
  \/ \E d \in {CacheDuration, PlanTTL} : Tick(d)

SpecSets == Init /\ [][NextSets]_vars


\* ---------------------------------------------------------------------
\* The overlay's phases (setPhase, applyPhase, determinePhase and the
\* handlers that call them). A handler runs to its next await in one step;
\* the step that follows the answer is a step of its own, enabled while
\* its name is in overlay.pending.
\* ---------------------------------------------------------------------
applyPhase(o) ==
  CASE o.currentPhase = "login" ->
         [o EXCEPT !.disabled = Sections, !.searchDisabled = TRUE]
    [] o.currentPhase = "cache" ->
         [o EXCEPT !.disabled = {"addCards", "checkout", "plans"}, !.searchDisabled = TRUE]
    [] o.currentPhase = "ready" ->
         [o EXCEPT !.disabled = {}, !.searchDisabled = FALSE]

setPhase(o, phase) == applyPhase([o EXCEPT !.currentPhase = phase])

determinePhase(o) ==
  IF ~o.hasAuth THEN "login"
  ELSE IF ~o.hasCachedSets THEN "cache"
  ELSE "ready"

\* refreshCachedSets: hasCachedSets = cachedSetsMap.size > 0
refreshCachedSets(o, setStore) == [o EXCEPT !.hasCachedSets = DOMAIN setStore # {}]

Await(o, done, next) == [o EXCEPT !.pending = (@ \ {done}) \cup next]

OverlayOnly ==
  UNCHANGED <<inventory, checkouts, plans, nextPlanId, now, req, resp, planned, cards, sets, indexNames, stateStore, epoch, knownSets>>

\* loadState up to the answer of chrome.storage.local.get("echoToken")
LoadAuth ==
  /\ "load1" \in overlay.pending
  /\ overlay' = Await([overlay EXCEPT !.hasAuth = overlay.echoToken,
                                      !.loggedIn = IF overlay.echoToken THEN TRUE ELSE @],
                      "load1", {"load2"})
  /\ OverlayOnly

\* loadState from the answer of GET_CACHED_SETS to setPhase(determinePhase())
LoadFinish ==
  /\ "load2" \in overlay.pending
  /\ LET o == refreshCachedSets(overlay, sets)
     IN overlay' = Await(setPhase(o, determinePhase(o)), "load2", {})
  /\ OverlayOnly

\* expand: the panel is shown and refreshState starts
Expand ==
  /\ ~overlay.expanded
  /\ "refresh1" \notin overlay.pending /\ "refresh2" \notin overlay.pending
  /\ overlay' = Await([overlay EXCEPT !.expanded = TRUE], "none", {"refresh1"})
  /\ OverlayOnly

Collapse ==
  /\ overlay.expanded
  /\ overlay' = [overlay EXCEPT !.expanded = FALSE]
  /\ OverlayOnly

\* refreshState up to showLoggedInUI / showLoggedOutUI
RefreshAuth ==
  /\ "refresh1" \in overlay.pending
  /\ overlay' = Await([overlay EXCEPT !.hasAuth = overlay.echoToken,
                                      !.loggedIn = overlay.echoToken],
                      "refresh1", {"refresh2"})
  /\ OverlayOnly

RefreshFinish ==
  /\ "refresh2" \in overlay.pending
  /\ LET o == refreshCachedSets(overlay, sets)
     IN overlay' = Await(setPhase(o, determinePhase(o)), "refresh2", {})
  /\ OverlayOnly

\* click on Login with the form filled in; the button is disabled until
\* the answer is there
LoginClick ==
  /\ overlay.expanded /\ ~overlay.loggedIn
  /\ "login1" \notin overlay.pending /\ "login2" \notin overlay.pending
  /\ overlay' = Await(overlay, "none", {"login1"})
  /\ OverlayOnly

\* the answer to LOGIN: the background has stored the token if ok
LoginAnswer(ok) ==
  /\ "login1" \in overlay.pending
  /\ overlay' = IF ok
                THEN Await([overlay EXCEPT !.echoToken = TRUE, !.hasAuth = TRUE,
                                           !.loggedIn = TRUE],
                           "login1", {"login2"})
                ELSE Await(overlay, "login1", {})
  /\ OverlayOnly

\* after refreshCachedSets: setPhase(hasCachedSets ? PHASE_READY : PHASE_CACHE)
LoginFinish ==
  /\ "login2" \in overlay.pending
  /\ LET o == refreshCachedSets(overlay, sets)
     IN overlay' = Await(setPhase(o, IF o.hasCachedSets THEN "ready" ELSE "cache"),
                         "login2", {})
  /\ OverlayOnly

\* click on Logout: LOGOUT is sent
LogoutClick ==
  /\ overlay.expanded /\ overlay.loggedIn
  /\ "logout" \notin overlay.pending
  /\ overlay' = Await(overlay, "none", {"logout"})
  /\ OverlayOnly

\* the logout handler after its awaits; the background has dropped the token
LogoutFinish ==
  /\ "logout" \in overlay.pending
  /\ overlay' = Await(setPhase([overlay EXCEPT !.echoToken = FALSE, !.hasAuth = FALSE,
                                               !.loggedIn = FALSE],
                               "login"),
                      "logout", {})
  /\ OverlayOnly

\* addSelectedCard up to the ADD_CARD message, for a result of a search the
\* user has typed into the enabled search input
AddSelectedCard ==
  /\ overlay.expanded
  /\ "addCards" \notin overlay.disabled
  /\ ~overlay.searchDisabled
  /\ ~overlay.isAdding
  /\ overlay' = Await([overlay EXCEPT !.isAdding = TRUE, !.searchDisabled = TRUE],
                      "none", {"add"})
  /\ OverlayOnly

\* addSelectedCard after the answer, whatever it is
AddAnswer ==
  /\ "add" \in overlay.pending
  /\ overlay' = Await([overlay EXCEPT !.isAdding = FALSE, !.searchDisabled = FALSE],
                      "add", {})
  /\ OverlayOnly

\* click on Cache Selected in the enabled Set Cache section
CacheClick ==
  /\ overlay.expanded
  /\ "cache" \notin overlay.disabled
  /\ "cache" \notin overlay.pending
  /\ overlay' = Await(overlay, "none", {"cache"})
  /\ OverlayOnly

\* the set is cached in the background, then refreshCachedSets and the
\* advance to the ready phase
CacheAnswer(setCode, rawCards) ==
  /\ "cache" \in overlay.pending
  /\ LET res == cacheSet(cards, sets, setCode, SubSeq(setCode, 1, 1), rawCards, now)
         o == refreshCachedSets(overlay, res.sets)
     IN /\ cards' = res.cards
        /\ sets' = res.sets
        /\ overlay' = Await(IF o.hasCachedSets /\ o.currentPhase = "cache"
                            THEN setPhase(o, "ready") ELSE o,
                            "cache", {})
  /\ UNCHANGED <<inventory, checkouts, plans, nextPlanId, now, req, resp, planned, indexNames, stateStore, epoch, knownSets>>

\* click on Clear All, shown while sets are cached
ClearAllClick ==
  /\ overlay.expanded
  /\ "cache" \notin overlay.disabled
  /\ overlay.hasCachedSets
  /\ "clear" \notin overlay.pending
  /\ overlay' = Await(overlay, "none", {"clear"})
  /\ OverlayOnly

ClearAllAnswer ==
  /\ "clear" \in overlay.pending
  /\ cards' = EmptyStore
  /\ sets' = EmptyStore
  /\ LET o == refreshCachedSets(overlay, EmptyStore)
     IN overlay' = Await(IF o.currentPhase = "ready" THEN setPhase(o, "cache") ELSE o,
                         "clear", {})
  /\ UNCHANGED <<inventory, checkouts, plans, nextPlanId, now, req, resp, planned, indexNames, stateStore, epoch, knownSets>>

\* the page has just built the overlay and called loadState, with or
\* without a token left by an earlier session
InitOverlay ==
  /\ inventory = EmptyStore
  /\ checkouts = <<>>
  /\ plans = EmptyStore
  /\ nextPlanId = 1
  /\ now = 1
  /\ req = IdleReq
  /\ resp = NoResp
  /\ planned = {}
  /\ cards = EmptyStore
  /\ sets = EmptyStore
  /\ indexNames = openDB(0, {})
  /\ stateStore = EmptyStore
  /\ epoch = NoEpoch
  /\ knownSets = NoKnownSets
  /\ overlay \in {[ClosedOverlay EXCEPT !.pending = {"load1"}, !.echoToken = t] :
                    t \in BOOLEAN}

NextOverlay ==
  \/ LoadAuth
  \/ LoadFinish
  \/ Expand
  \/ Collapse
  \/ RefreshAuth
  \/ RefreshFinish
  \/ LoginClick
  \/ \E ok \in BOOLEAN : LoginAnswer(ok)
  \/ LoginFinish
  \/ LogoutClick
  \/ LogoutFinish
  \/ AddSelectedCard
  \/ AddAnswer
  \/ CacheClick
  \/ CacheAnswer(<<"F", "D", "N">>, RawCards)
  \/ ClearAllClick
  \/ ClearAllAnswer

SpecOverlay == InitOverlay /\ [][NextOverlay]_vars

SpecStores == Init /\ [][NextStores]_vars

\* ---------------------------------------------------------------------
\* Properties
\* ---------------------------------------------------------------------
Range(seq) == {seq[i] : i \in 1..Len(seq)}

\* the step in which CardDB.checkoutCards commits the batch of req'
CheckoutStep == req.pc = "idle" /\ req'.pc = "token"

\* the step in which the request saves its plan and answers
PlanStep == req.pc = "plan" /\ req'.pc = "idle"

\* a step of the CHECKOUT_CARDS request after its checkout transaction
RequestStep == req.pc # "idle" /\ req' # req

LastOccurrence(ids, i) == \A j \in (i + 1)..Len(ids) : ids[j] # ids[i]

\* what the checkout step has stored for the i-th id of the batch
RecordCreated(i) ==
  LET c == checkouts'[req'.created[i]]
  IN /\ req'.created[i] \notin DOMAIN checkouts
     /\ c.echo_inventory_id = req'.inventoryIds[i]
     /\ c.status = "out"
     /\ c.target_location = req'.loc
     /\ c.target_position = req'.offset + (i - 1)
     /\ \E k \in DOMAIN getCheckoutCards(checkouts', req'.loc) :
          getCheckoutCards(checkouts', req'.loc)[k] = c

NoteWritten(i) ==
  LET id == req'.inventoryIds[i]
  IN id \in DOMAIN inventory =>
       /\ id \in DOMAIN inventory'
       /\ inventory'[id].note = req'.loc \o <<"p">> \o NumToStr(req'.offset + (i - 1))

GroupCount(cos, loc) ==
  LET gs == getCheckoutGroups(cos)
  IN IF \E j \in 1..Len(gs) : gs[j].location = loc
     THEN gs[CHOOSE j \in 1..Len(gs) : gs[j].location = loc].count
     ELSE 0

HasGroup(cos, loc) ==
  \E j \in 1..Len(getCheckoutGroups(cos)) : getCheckoutGroups(cos)[j].location = loc

\* the records a step flips from out to in
Flipped == {i \in DOMAIN checkouts : checkouts[i].status = "out" /\ checkouts'[i].status = "in"}

\* C2: a check-in of an out record sets its status to in and stamps
\* checked_in_at; the record is then listed neither by listOpenByLocation nor
\* by listOpenGroups: the count of its location drops by one for every record
\* of that location checked in, and the group is gone when the count is zero.
C2_CheckinClosesRecord ==
  [][/\ \A i \in Flipped :
          /\ checkouts'[i].checked_in_at = Some(now)
          /\ \A k \in DOMAIN getCheckoutCards(checkouts', LocOf(checkouts[i])) :
               getCheckoutCards(checkouts', LocOf(checkouts[i]))[k].id # i
     /\ Flipped # {} =>
          \A loc \in {LocOf(checkouts[i]) : i \in DOMAIN checkouts} :
             /\ GroupCount(checkouts', loc) =
                  GroupCount(checkouts, loc)
                    - Cardinality({i \in Flipped : LocOf(checkouts[i]) = loc})
             /\ HasGroup(checkouts', loc) <=> GroupCount(checkouts', loc) > 0
             /\ GroupCount(checkouts', loc) =
                  Cardinality({i \in DOMAIN checkouts' :
                                 checkouts'[i].status = "out" /\ LocOf(checkouts'[i]) = loc})
    ]_vars

C2_Witness ==
  /\ Len(checkouts) = 2
  /\ checkouts[1].status = "in"
  /\ checkouts[1].checked_in_at = Some(now)
  /\ checkouts[2].status = "out"
  /\ LocOf(checkouts[1]) = TagD
  /\ LocOf(checkouts[2]) = TagD
  /\ GroupCount(checkouts, TagD) = 1
  /\ Len(getCheckoutCards(checkouts, TagD)) = 1

OutAmong(cos, ids) ==
  {id \in Range(ids) : id \in DOMAIN cos /\ cos[id].status = "out"}

\* C3: checkin returns the number of ids that referred to an out record when
\* they were processed, changes no record that is unknown or already in, and
\* a second checkin with the same ids returns 0 and changes nothing.
C3_CheckinCountsAndIsIdempotent ==
  \A ids \in CheckinInputs, r \in ReturnInputs :
     LET first == checkinCards(checkouts, ids, r[1], r[2], now)
         again == checkinCards(first.checkouts, ids, r[1], r[2], now)
     IN /\ first.updated = Cardinality(OutAmong(checkouts, ids))
        /\ DOMAIN first.checkouts = DOMAIN checkouts
        /\ \A i \in DOMAIN checkouts :
             i \notin OutAmong(checkouts, ids) => first.checkouts[i] = checkouts[i]
        /\ again.updated = 0
        /\ again.checkouts = first.checkouts

C3_Witness ==
  /\ Len(checkouts) = 2
  /\ checkouts[1].status = "in"
  /\ checkouts[2].status = "out"
  /\ checkinCards(checkouts, <<1, 2>>, <<"a">>, 0, now).updated = 1
  /\ checkinCards(checkouts, <<1, 1>>, <<"a">>, 0, now).updated = 0

\* C4: a CHECKOUT_CARDS request saves exactly one retrieval plan, titled
\* "<date> <target location>", whose items follow the checkout records of
\* its batch one to one and in order (current_location / current_position
\* are the record's source_location / source_position, checked is false)
\* and whose expires_at is created_at plus 30 days; the answer carries the
\* key of that plan.  No other step adds a plan.
C4_OnePlanPerCheckout ==
  [][/\ PlanStep =>
          /\ nextPlanId \notin DOMAIN plans
          /\ DOMAIN plans' = DOMAIN plans \cup {nextPlanId}
          /\ \A id \in DOMAIN plans : plans'[id] = plans[id]
          /\ LET plan == plans'[nextPlanId]
             IN /\ plan.id = nextPlanId
                /\ plan.title = NumToStr(now) \o <<" ">> \o req.loc
                /\ plan.target_location = req.loc
                /\ plan.created_at = now
                /\ plan.expires_at = plan.created_at + PlanTTL
                /\ Len(plan.items) = Len(req.created)
                /\ \A i \in 1..Len(req.created) :
                     LET c == checkouts[req.created[i]]
                     IN /\ c.target_location = req.loc
                        /\ plan.items[i].echo_inventory_id = c.echo_inventory_id
                        /\ plan.items[i].echo_inventory_id = req.inventoryIds[i]
                        /\ plan.items[i].emid = c.emid
                        /\ plan.items[i].current_location = c.source_location
                        /\ plan.items[i].current_position = c.source_position
                        /\ plan.items[i].checked = FALSE
          /\ resp'.ok
          /\ resp'.planId = nextPlanId
          /\ resp'.count = Len(req.created)
     /\ ~PlanStep => DOMAIN plans' \subseteq DOMAIN plans
    ]_vars

C4_Witness ==
  /\ req.pc = "idle"
  /\ resp.ok
  /\ resp.count = 2
  /\ resp.planId \in DOMAIN plans
  /\ plans[resp.planId].title = <<"1", " ", "d">>
  /\ plans[resp.planId].expires_at = 1 + PlanTTL
  /\ Len(plans[resp.planId].items) = 2
  /\ plans[resp.planId].items[1].current_location = Some(<<"a">>)
  /\ plans[resp.planId].items[1].current_position = Some(1)
  /\ plans[resp.planId].items[2].current_location = None
  /\ ~plans[resp.planId].items[1].checked

\* C5 as stated: the retrieval plan is created atomically with its checkout
\* batch, so in no reachable state are checkout records stored whose batch
\* has no plan saved yet.
C5_PlanAtomicWithBatch ==
  \A i \in DOMAIN checkouts : i \in planned

\* C6: whatever the remote note synchronisation does (no token, a call that
\* fails, a call that succeeds), no step of the request after its checkout
\* transaction changes a stored note or a checkout record, the request ends
\* only by saving its plan, and it then answers ok.
C6_SyncOutcomeNeverUndoesCheckout ==
  [][RequestStep =>
       /\ checkouts' = checkouts
       /\ DOMAIN inventory' = DOMAIN inventory
       /\ \A id \in DOMAIN inventory : inventory'[id].note = inventory[id].note
       /\ req'.pc = "idle" =>
            /\ resp'.ok
            /\ resp'.planId \in DOMAIN plans'
            /\ resp'.planId \notin DOMAIN plans
            /\ Len(plans'[resp'.planId].items) = Len(req.records)]_vars

\* the synchronisation has failed and the request is about to save its plan:
\* the batch is still out and the notes still name the target
C6_Witness ==
  /\ req.pc = "plan"
  /\ req.noteSync = "failed"
  /\ req.inventoryIds = <<1, 2>>
  /\ DOMAIN inventory = {1, 2}
  /\ inventory[1].note = <<"d", "p", "2">>
  /\ inventory[2].note = <<"d", "p", "3">>
  /\ \A i \in 1..2 : checkouts[req.created[i]].status = "out"

\* C7 as stated: at most one checkout record with status out exists for any
\* inventory id.
C7_AtMostOneOutPerItem ==
  \A i, j \in DOMAIN checkouts :
     /\ checkouts[i].echo_inventory_id = checkouts[j].echo_inventory_id
     /\ checkouts[i].status = "out"
     /\ checkouts[j].status = "out"
     => i = j

\* the out records of an inventory id
OutOf(cos, id) == {i \in DOMAIN cos : cos[i].echo_inventory_id = id /\ cos[i].status = "out"}

Occurrences(ids, id) == Cardinality({i \in 1..Len(ids) : ids[i] = id})

\* C8: a checkout of an id that already has an out record adds a further out
\* record for it and overwrites the note of that item; every checkout record
\* that existed before, every inventory record of an id outside the batch,
\* the other fields of the records in the batch and every plan are unchanged.
C8_RecheckoutFrame ==
  [][CheckoutStep =>
       /\ Len(checkouts') = Len(checkouts) + Len(req'.inventoryIds)
       /\ \A i \in DOMAIN checkouts : checkouts'[i] = checkouts[i]
       /\ DOMAIN inventory' = DOMAIN inventory
       /\ \A id \in DOMAIN inventory :
            IF id \in Range(req'.inventoryIds)
            THEN inventory'[id] = [inventory[id] EXCEPT !.note = inventory'[id].note]
            ELSE inventory'[id] = inventory[id]
       /\ plans' = plans
       /\ \A id \in Range(req'.inventoryIds) :
            /\ Cardinality(OutOf(checkouts', id)) =
                 Cardinality(OutOf(checkouts, id)) + Occurrences(req'.inventoryIds, id)
            /\ OutOf(checkouts, id) # {} /\ id \in DOMAIN inventory =>
                 \E i \in 1..Len(req'.inventoryIds) :
                    /\ req'.inventoryIds[i] = id
                    /\ inventory'[id].note =
                         NoteText(checkouts'[req'.created[i]].target_location,
                                  checkouts'[req'.created[i]].target_position)]_vars

\* item 1 was out at "Unknown" position 1 and has just been checked out
\* again to "d" position 2
C8_Witness ==
  /\ req.pc = "token"
  /\ req.inventoryIds = <<1>>
  /\ Len(checkouts) = 2
  /\ OutOf(checkouts, 1) = {1, 2}
  /\ checkouts[1].target_location = TagUnknown
  /\ checkouts[2].target_location = TagD
  /\ checkouts[2].source_location = Some(TagUnknown)
  /\ 1 \in DOMAIN inventory
  /\ inventory[1].note = <<"d", "p", "2">>

CheckoutTimeFields(c) ==
  <<c.id, c.echo_inventory_id, c.emid, c.target_location, c.target_position,
    c.source_location, c.source_position, c.checked_out_at>>

\* C9: in every step of every operation (checkout, check-in, inventory
\* import, clearInventory, cacheSet, clearAll, plan deletion, expiry sweep)
\* each stored checkout record stays stored under its key with its
\* checkout-time fields unchanged, and its status either stays what it was
\* or goes from out to in.
C9_CheckoutRecordsOnlyCloseAndStay ==
  [][/\ Len(checkouts') >= Len(checkouts)
     /\ \A i \in DOMAIN checkouts :
          /\ CheckoutTimeFields(checkouts'[i]) = CheckoutTimeFields(checkouts[i])
          /\ checkouts[i].status = "in" =>
               /\ checkouts'[i].status = "in"
               /\ checkouts'[i] = checkouts[i]
          /\ checkouts'[i].status \in {"out", "in"}]_vars

\* record 1 was checked in at day 1 and is still there, closed, after a
\* later check-in naming it again, with the inventory, the plans and the
\* card cache all emptied
C9_Witness ==
  /\ Len(checkouts) = 2
  /\ checkouts[1].status = "in"
  /\ checkouts[1].checked_in_at = Some(1)
  /\ checkouts[2].status = "in"
  /\ checkouts[2].checked_in_at = Some(1 + PlanTTL)
  /\ DOMAIN inventory = {}
  /\ DOMAIN plans = {}
  /\ nextPlanId > 1
  /\ DOMAIN cards = {}
  /\ now = 1 + PlanTTL

ListedIds(pl, t) == {getRetrievalPlans(pl, t)[i].id : i \in 1..Len(getRetrievalPlans(pl, t))}

\* C10: a stored plan whose expires_at is not later than the clock is not in
\* getRetrievalPlans but is what getRetrievalPlan returns; a stored plan
\* leaves the store only in a deleteRetrievalPlan or cleanExpiredPlans
\* step; and a plan that was created and is not listed is not listed after
\* any step (the clock does not run backwards).
C10_ExpiredPlanHiddenButStored ==
  [][/\ \A id \in DOMAIN plans :
          /\ plans[id].expires_at <= now =>
               /\ id \notin ListedIds(plans, now)
               /\ getRetrievalPlan(plans, id) = Some(plans[id])
          /\ id \notin DOMAIN plans' =>
               \/ DeleteRetrievalPlan(id)
               \/ CleanExpiredPlans /\ plans[id].expires_at <= now
     /\ now' >= now
     /\ \A id \in 1..(nextPlanId - 1) :
          id \notin ListedIds(plans, now) => id \notin ListedIds(plans', now')]_vars

\* plan 1 expires exactly now: it is stored, returned by key, and not listed
C10_Witness ==
  /\ 1 \in DOMAIN plans
  /\ plans[1].expires_at = now
  /\ getRetrievalPlan(plans, 1) = Some(plans[1])
  /\ getRetrievalPlans(plans, now) = <<>>

\* C11: at any instant cleanExpiredPlans deletes exactly the stored plans
\* with expires_at <= now, keeps every other plan as it is and returns the
\* number deleted; each stored plan is either listed by getRetrievalPlans or
\* deleted by the sweep, never both and never neither.
C11_SweepDeletesExactlyExpired ==
  LET res == cleanExpiredPlans(plans, now)
      gone == {id \in DOMAIN plans : plans[id].expires_at <= now}
  IN /\ DOMAIN res.plans = DOMAIN plans \ gone
     /\ \A id \in DOMAIN res.plans : res.plans[id] = plans[id]
     /\ res.deleted = Cardinality(gone)
     /\ \A id \in DOMAIN plans :
          (id \in ListedIds(plans, now)) <=> (id \in DOMAIN res.plans)
     /\ Len(getRetrievalPlans(plans, now)) + res.deleted = Cardinality(DOMAIN plans)

\* plan 1 expires at this instant and plan 2 later: the sweep takes plan 1 only
C11_Witness ==
  /\ DOMAIN plans = {1, 2}
  /\ plans[1].expires_at = now
  /\ plans[2].expires_at > now
  /\ cleanExpiredPlans(plans, now).deleted = 1
  /\ DOMAIN cleanExpiredPlans(plans, now).plans = {2}
  /\ ListedIds(plans, now) = {2}

\* planId, itemIndex (0-based) and checked of an UPDATE_PLAN_ITEM message:
\* stored and unknown plans, indexes in and out of range
ToggleInputs == (0..(MaxPlans + 1)) \X ((0 - 1)..MaxBatch) \X BOOLEAN

\* C12: updateRetrievalPlanItem sets items[itemIndex].checked of that plan
\* and nothing else: the other items, the plan's other fields, the number
\* and order of its items and every other plan are as before; an unknown
\* planId or an itemIndex out of range leaves the store as it is.
C12_ToggleFrame ==
  \A in \in ToggleInputs :
     LET planId == in[1]
         k == in[2]
         res == updateRetrievalPlanItem(plans, planId, k, in[3])
         hit == planId \in DOMAIN plans /\ k >= 0 /\ k < Len(plans[planId].items)
     IN /\ DOMAIN res = DOMAIN plans
        /\ \A id \in DOMAIN plans : id # planId => res[id] = plans[id]
        /\ ~hit => res = plans
        /\ hit =>
             /\ res[planId].items[k + 1].checked = in[3]
             /\ Len(res[planId].items) = Len(plans[planId].items)
             /\ \A i \in 1..Len(plans[planId].items) :
                  /\ i # k + 1 => res[planId].items[i] = plans[planId].items[i]
                  /\ [res[planId].items[i] EXCEPT !.checked = FALSE] =
                       [plans[planId].items[i] EXCEPT !.checked = FALSE]
             /\ [res[planId] EXCEPT !.items = <<>>] = [plans[planId] EXCEPT !.items = <<>>]

\* the first of two items has been ticked off, the second has not
C12_Witness ==
  /\ 1 \in DOMAIN plans
  /\ Len(plans[1].items) = 2
  /\ plans[1].items[1].checked
  /\ ~plans[1].items[2].checked
  /\ plans[1].expires_at = 1 + PlanTTL
  /\ updateRetrievalPlanItem(plans, 1, 2, TRUE) = plans
  /\ updateRetrievalPlanItem(plans, 1, 1, TRUE)[1].items[2].checked

\* the inputs of cacheSet tried in every reachable cache: a set code, its
\* name and the rows
CacheInputs == {<<c, SubSeq(c, 1, 1), rows>> : c \in SetCodes, rows \in RowLists}

EntriesFor(setStore, setCode) ==
  LET listed == getCachedSets(setStore)
  IN {i \in 1..Len(listed) : listed[i].set_code = setCode}

\* C13: a cacheSet that returns returns rows.length, and getCachedSets then
\* has exactly one entry for the set code, with card_count = rows.length and
\* active = true, whatever entry the set had before.
C13_CacheSetRoundTrip ==
  \A in \in CacheInputs :
     LET res == cacheSet(cards, sets, in[1], in[2], in[3], now)
         listed == getCachedSets(res.sets)
     IN res.ok =>
          /\ res.count = Len(in[3])
          /\ Cardinality(EntriesFor(res.sets, in[1])) = 1
          /\ \A i \in EntriesFor(res.sets, in[1]) :
               /\ listed[i].card_count = Len(in[3])
               /\ listed[i].active = TRUE
               /\ listed[i].set_name = in[2]

\* FDN is cached with two cards and inactive; caching one row for it again
\* gives one entry, with count 1 and active
C13_Witness ==
  /\ SetFDN \in DOMAIN sets
  /\ sets[SetFDN].active = FALSE
  /\ sets[SetFDN].card_count = 2
  /\ SetDsk \in DOMAIN sets
  /\ cacheSet(cards, sets, SetFDN, <<"F">>, <<Card1>>, now).ok
  /\ cacheSet(cards, sets, SetFDN, <<"F">>, <<Card1>>, now).count = 1
  /\ Len(getCachedSets(cacheSet(cards, sets, SetFDN, <<"F">>, <<Card1>>, now).sets)) = 2
  /\ cacheSet(cards, sets, SetFDN, <<"F">>, <<Card1>>, now).sets[SetFDN].active = TRUE

RowIds(rows) == {The(rows[i].emid) : i \in {j \in 1..Len(rows) : rows[j].emid # None}}

\* C14 as stated: after cacheSet(S, name, rows) the cards stored with
\* set_code S are exactly those built from rows.
C14_CacheReplacesSet ==
  \A in \in CacheInputs :
     LET res == cacheSet(cards, sets, in[1], in[2], in[3], now)
     IN res.ok => CardsOfSet(res.cards, in[1]) = RowIds(in[3])

\* C15 as stated: after cacheSet returns or fails, either every row's card
\* and the set entry are stored or the stores are as they were.
C15_CacheSetAllOrNothing ==
  \A in \in CacheInputs :
     LET res == cacheSet(cards, sets, in[1], in[2], in[3], now)
     IN \/ /\ res.ok
           /\ RowIds(in[3]) \subseteq CardsOfSet(res.cards, in[1])
           /\ Len(in[3]) = Cardinality(RowIds(in[3]))
           /\ in[1] \in DOMAIN res.sets
        \/ /\ res.cards = cards
           /\ res.sets = sets

\* C16 as stated: clearSet completes and leaves no card with that set_code
\* and no entry for it, for a set of any size; the cards and entries of the
\* other sets are unchanged.
C16_ClearSetRemovesSet ==
  \A c \in SetCodes :
     LET res == clearSet(cards, sets, c)
     IN /\ res.ok
        /\ CardsOfSet(res.cards, c) = {}
        /\ c \notin DOMAIN res.sets
        /\ \A k \in DOMAIN cards : cards[k].set_code # c =>
             k \in DOMAIN res.cards /\ res.cards[k] = cards[k]
        /\ \A d \in DOMAIN sets : d # c =>
             d \in DOMAIN res.sets /\ res.sets[d] = sets[d]

SetUnknown == <<"X">>

\* C17: getActiveSets is the codes of the cached sets whose active flag is
\* not false; a set just cached is active; setSetActive(S, a) on a cached
\* set changes that entry's flag and nothing else, so S is listed exactly
\* when a is true; on a set that is not cached it changes nothing.
C17_ActiveSets ==
  /\ Range(getActiveSets(sets)) = {c \in DOMAIN sets : sets[c].active # FALSE}
  /\ Len(getActiveSets(sets)) = Cardinality(Range(getActiveSets(sets)))
  /\ \A in \in CacheInputs :
       LET res == cacheSet(cards, sets, in[1], in[2], in[3], now)
       IN res.ok => in[1] \in Range(getActiveSets(res.sets))
  /\ \A c \in SetCodes \cup {SetUnknown}, a \in BOOLEAN :
       LET res == setSetActive(sets, c, a)
       IN /\ DOMAIN res = DOMAIN sets
          /\ \A d \in DOMAIN sets : d # c => res[d] = sets[d]
          /\ c \notin DOMAIN sets => res = sets
          /\ c \in DOMAIN sets =>
               /\ res[c] = [sets[c] EXCEPT !.active = a]
               /\ (c \in Range(getActiveSets(res))) <=> a

\* FDN has been set inactive and dsk is active
C17_Witness ==
  /\ DOMAIN sets = {SetFDN, SetDsk}
  /\ sets[SetFDN].active = FALSE
  /\ getActiveSets(sets) = <<SetDsk>>
  /\ getActiveSets(setSetActive(sets, SetFDN, TRUE)) = <<SetFDN, SetDsk>>
  /\ setSetActive(sets, SetUnknown, TRUE) = sets

\* what the overlay and other callers type and pass
QueryLi == <<"l", "i">>
QueryLiCap == <<"L", "i">>
QueryC == <<"c">>
QueryLB == <<"L", "B">>
QueryLSpaceB == <<"L", " ", "B">>
QueryLiBo == <<"l", "i", " ", "b", "o">>
QueryBlank == <<" ">>
QueryLiRaBo == <<"l", "i", " ", "r", "a", " ", "b", "o">>
QueryLiL == <<"l", "i", " ", "l">>
QueryBoLi == <<"b", "o", " ", "l", "i">>
QueryLoBo == <<"l", "o", " ", "b", "o">>
Queries ==
  {QueryLi, QueryLiCap, QueryC, QueryLB, QueryLSpaceB, QueryLiBo, QueryBlank,
   QueryLiRaBo, QueryLiL, QueryBoLi, QueryLoBo}

SetFdnLower == <<"f", "d", "n">>

ActiveSetInputs ==
  {None, Some(<<>>), Some(<<SetFDN>>), Some(<<SetDsk>>), Some(<<SetFdnLower>>),
   Some(<<SetFDN, SetDsk>>), Some(getActiveSets(sets))}

Limits == {1, DefaultMaxResults}

\* what a search without a read error answers in the current state
Search(q, act, lim) == searchCards(cards, indexNames, q, act, lim, FALSE)

PrefixMatches(store, query, setFilter) ==
  {k \in DOMAIN store :
     /\ Has(store[k], "search_normalized")
     /\ startsWith(store[k].search_normalized, query)
     /\ PassesFilter(store[k], setFilter)}

InitialsMatches(store, query, setFilter) ==
  {k \in DOMAIN store :
     /\ Has(store[k], "initials")
     /\ Has(store[k], "progressive_initials")
     /\ store[k].initials # <<>>
     /\ startsWith(store[k].initials, query)
     /\ PassesFilter(store[k], setFilter)}

InitialsScore(card, query) == IF card.initials = query THEN 0 ELSE 100

\* C20 as stated: for a query classified as initials or space_initials,
\* searchCards finds the cards that pass the set filter, have initials and
\* progressive_initials and whose initials start with the lowercased letters
\* of the query; cards whose initials equal them come first, cards of equal
\* score keep the order of the initials index (initials, then emid), and the
\* list is cut to maxResults after that.
C20_InitialsSearch ==
  \A q \in Queries, act \in ActiveSetInputs, lim \in Limits :
     LET intent == detectSearchIntent(q)
         full == Search(q, act, DefaultMaxResults).cards
         res == Search(q, act, lim).cards
         found == InitialsMatches(cards, intent.query, SetFilter(act))
     IN intent.strategy \in {"initials", "space_initials"} =>
          /\ {full[i].emid : i \in 1..Len(full)} = found
          /\ Len(full) = Cardinality(found)
          /\ \A i \in 1..Len(full) : full[i] = cards[full[i].emid]
          /\ \A i, j \in 1..Len(full) : i < j =>
               \/ InitialsScore(full[i], intent.query) < InitialsScore(full[j], intent.query)
               \/ /\ InitialsScore(full[i], intent.query) = InitialsScore(full[j], intent.query)
                  /\ \/ StrLess(full[i].initials, full[j].initials)
                     \/ /\ full[i].initials = full[j].initials
                        /\ full[i].emid < full[j].emid
          /\ Len(res) = (IF Len(full) < lim THEN Len(full) ELSE lim)
          /\ \A i \in 1..Len(res) : res[i] = full[i]

\* the cards a multi-token query is to find
MultiTokenMatches(store, tokens, firstToken, setFilter) ==
  {k \in DOMAIN store :
     /\ Has(store[k], "first_letter")
     /\ store[k].first_letter = SubSeq(firstToken, 1, 1)
     /\ Has(store[k], "tokens")
     /\ Len(tokens) > 0
     /\ \A i \in 1..Len(tokens) :
          \E j \in 1..Len(store[k].tokens) : startsWith(store[k].tokens[j], tokens[i])
     /\ PassesFilter(store[k], setFilter)}

\* C21: for a query classified as multi_token, searchCards answers with a
\* list, and the cards found (by searchByMultiToken, and by searchCards when
\* the limit does not cut) are those that pass the set filter, whose
\* first_letter is the first character of the first query token, that have
\* tokens, and for which every query token is a prefix of some card token, in
\* any order and with one card token serving several query tokens; an empty
\* token list finds nothing.
C21_MultiTokenSearch ==
  \A q \in Queries, act \in ActiveSetInputs :
     LET intent == detectSearchIntent(q)
         scan == searchByMultiToken(cards, indexNames, intent.tokens, intent.firstToken,
                                    SetFilter(act), FALSE)
         full == Search(q, act, DefaultMaxResults)
         found == MultiTokenMatches(cards, intent.tokens, intent.firstToken, SetFilter(act))
     IN intent.strategy = "multi_token" =>
          /\ scan.out = "ok"
          /\ {scan.cards[i].emid : i \in 1..Len(scan.cards)} = found
          /\ Len(scan.cards) = Cardinality(found)
          /\ \A i \in 1..Len(scan.cards) : scan.cards[i] = cards[scan.cards[i].emid]
          /\ full.out = "ok"
          /\ Range(full.cards) = Range(scan.cards)
          /\ Len(full.cards) = Len(scan.cards)
          /\ searchByMultiToken(cards, indexNames, <<>>, intent.firstToken,
                                SetFilter(act), FALSE) = Found(<<>>)

\* "Li Bo Ra", "Li Bo" and the first release's record of "Lo Bo" are stored:
\* "li ra bo" finds the first in another token order, "li l" finds both with
\* one card token for two query tokens, "bo li" finds nothing because no
\* first_letter is b, and "lo bo" skips the record without tokens
C21_Witness ==
  /\ DOMAIN cards = {1, 2, 9}
  /\ ~Has(cards[9], "tokens")
  /\ Search(QueryLiRaBo, None, DefaultMaxResults) = Found(<<cards[1]>>)
  /\ Range(Search(QueryLiL, None, DefaultMaxResults).cards) = {cards[1], cards[2]}
  /\ Search(QueryBoLi, None, DefaultMaxResults) = Found(<<>>)
  /\ Search(QueryLoBo, None, DefaultMaxResults) = Found(<<>>)
  /\ Search(QueryLiBo, Some(<<SetDsk>>), DefaultMaxResults) = Found(<<>>)

\* the index a strategy scans
StrategyIndex(strategy) ==
  IF strategy \in {"initials", "space_initials"} THEN "by_initials"
  ELSE IF strategy = "prefix" THEN "by_search_normalized"
  ELSE "by_first_letter"

\* the cards the basic strategy is to find
BasicMatches(store, q, setFilter) ==
  {k \in DOMAIN store :
     /\ Has(store[k], "first_letter")
     /\ store[k].first_letter = SubSeq(q, 1, 1)
     /\ Has(store[k], "name_normalized")
     /\ includes(store[k].name_normalized, q)
     /\ PassesFilter(store[k], setFilter)}

\* C22: when the index of the strategy chosen for a non-empty query does not
\* exist, or the cursor request of its scan fails, searchCards still answers
\* with a list, the one searchByBasic gives: the cards that pass the set
\* filter, whose first_letter is the first character of the trimmed,
\* lowercased query and whose name_normalized contains that query, in key
\* order, the first maxResults of them.
C22_FallbackOnFailure ==
  \A q \in Queries, act \in ActiveSetInputs, lim \in Limits, readError \in BOOLEAN :
     LET intent == detectSearchIntent(q)
         res == searchCards(cards, indexNames, q, act, lim, readError)
         qq == toLowerCase(Trim(q))
         found == BasicMatches(cards, qq, SetFilter(act))
         ids == [i \in 1..Len(res.cards) |-> res.cards[i].emid]
     IN (intent.strategy # "empty"
           /\ (readError \/ StrategyIndex(intent.strategy) \notin indexNames)) =>
          /\ res.out = "ok"
          /\ res = searchByBasic(cards, indexNames, q, SetFilter(act), lim)
          /\ Len(ids) = (IF Cardinality(found) < lim THEN Cardinality(found) ELSE lim)
          /\ \A i \in 1..Len(ids) : ids[i] \in found /\ res.cards[i] = cards[ids[i]]
          /\ \A i, j \in 1..Len(ids) : i < j => ids[i] < ids[j]
          /\ \A k \in found : (\A i \in 1..Len(ids) : ids[i] # k) =>
               \A i \in 1..Len(ids) : ids[i] < k

\* a database created by this release holds "Li Bo Ra" and "Li Bo": "LB" finds
\* no by_initials index and "li" no by_search_normalized index, and a failed
\* read of the scan for "li bo" is answered by the basic search as well
C22_Witness ==
  /\ "by_initials" \notin indexNames
  /\ DOMAIN cards = {1, 2}
  /\ searchByInitials(cards, indexNames, <<"l", "b">>, None, FALSE) = Rejected
  /\ Search(QueryLB, None, DefaultMaxResults) = Found(<<>>)
  /\ Search(QueryLi, None, DefaultMaxResults) = Found(<<cards[1], cards[2]>>)
  /\ searchCards(cards, indexNames, QueryLiBo, None, DefaultMaxResults, TRUE)
       = Found(<<cards[1], cards[2]>>)
  /\ searchCards(cards, indexNames, QueryLiBo, None, 1, TRUE) = Found(<<cards[1]>>)

DerivedFields ==
  {"tokens", "initials", "progressive_initials", "search_normalized", "name_normalized"}

\* C23 as stated: whatever record lacks derived search fields, every search,
\* by any strategy and by the basic fallback a failed strategy is answered
\* with, completes with a list, and the list holds no record that lacks one.
C23_MalformedRecordSkipped ==
  \A q \in Queries, act \in ActiveSetInputs, lim \in Limits, readError \in BOOLEAN :
     LET res == searchCards(cards, indexNames, q, act, lim, readError)
     IN /\ res.out = "ok"
        /\ \A i \in 1..Len(res.cards) : DerivedFields \subseteq DOMAIN res.cards[i]

\* the inventory that holds exactly the given records, the last one of an id
Imported(records) ==
  [k \in {records[i].echo_inventory_id : i \in 1..Len(records)} |->
     records[CHOOSE i \in 1..Len(records) :
               /\ records[i].echo_inventory_id = k
               /\ \A j \in (i + 1)..Len(records) : records[j].echo_inventory_id # k]]

CheckinStep ==
  \E i \in DOMAIN checkouts :
     /\ i \in DOMAIN checkouts'
     /\ checkouts[i].status = "out"
     /\ checkouts'[i].status = "in"

\* C25: a check-in, with or without a return location and position, writes
\* the checkout ledger only: the inventory records and their notes, the
\* retrieval plans, the card store, the set store and the state store are
\* the same after the step as before it.
C25_CheckinWritesLedgerOnly ==
  [][CheckinStep => UNCHANGED <<inventory, plans, nextPlanId, cards, sets, stateStore, epoch, knownSets, overlay>>]_vars

\* a record checked in with a return location and position, next to an
\* inventory note, a saved plan, a cached card and a state record
C25_Witness ==
  /\ \E i \in DOMAIN checkouts :
        /\ checkouts[i].status = "in"
        /\ checkouts[i].return_location = Some(<<"a">>)
        /\ checkouts[i].return_position = Some(2)
  /\ \E k \in DOMAIN inventory : inventory[k].note # <<>>
  /\ DOMAIN plans # {}
  /\ DOMAIN cards # {}
  /\ DOMAIN stateStore # {}

\* C26: parseNoteLocation is the inverse of the note format: for every
\* non-empty tag without surrounding white space (with "p" or digits in it
\* too) and every position, the note tag + "p" + position parses to exactly
\* that tag and position; an empty note and a note outside the format parse
\* to (none, none), and whatever else a stored note parses to is a
\* non-empty tag, "p" and the digits of the position, read off the trimmed
\* note.
C26_ParseInvertsNoteFormat ==
  /\ \A k \in DOMAIN inventory :
        LET note == inventory[k].note
            loc == parseNoteLocation(note)
            s == Trim(note)
        IN /\ \A t \in LocationTags, n \in Positions :
                 note = NoteText(t, n) => loc = [tag |-> Some(t), position |-> Some(n)]
           /\ note \in OtherNotes => loc = NoLocation
           /\ loc # NoLocation =>
                 /\ loc.tag # None /\ loc.position # None
                 /\ LET t == The(loc.tag)
                        digits == SubSeq(s, Len(t) + 2, Len(s))
                    IN /\ t # <<>>
                       /\ SubSeq(s, 1, Len(t) + 1) = t \o <<"p">>
                       /\ AllDigits(digits)
                       /\ StrToNum(digits) = The(loc.position)

\* a card checked out from a note whose tag holds "p" and a digit: the
\* record keeps the whole tag and the two-digit position
C26_Witness ==
  \E i \in DOMAIN checkouts :
     /\ checkouts[i].source_location = Some(<<"p", "1", "p">>)
     /\ checkouts[i].source_position = Some(12)

\* C27: needsSearchMigration answers true exactly when some stored card
\* record lacks tokens or initials, wherever the record sits in the store
\* and however many records the store holds.
C27_NeedsMigrationIffLegacyRecord ==
  needsSearchMigration(cards) <=>
     \E k \in DOMAIN cards : ~Has(cards[k], "tokens") \/ ~Has(cards[k], "initials")

\* C28: normalizeCardName is idempotent: normalising a normalised name
\* changes nothing, for every stored name, whatever token suffix, emblem
\* prefix, face separator and parentheticals it combines.
C28_NormalizeIdempotent ==
  \A k \in DOMAIN cards :
     LET once == normalizeCardName(cards[k].name)
     IN normalizeCardName(once) = once

\* a step in which the overlay's start-up gets its answer
LoadStateStep == resp' # resp /\ "plans" \in DOMAIN resp'

\* C29: expired retrieval plans are removed automatically: once the
\* start-up sequence of the overlay has run its clean-up step, no plan
\* whose expires_at has passed is left in the retrieval_plans store.
C29_StartupRemovesExpiredPlans ==
  [][LoadStateStep => \A id \in DOMAIN plans' : plans'[id].expires_at > now']_vars

\* the records of a batch of two stand side by side at the target, and so
\* do the notes of its two cards
Partner(r, q) ==
  /\ q.echo_inventory_id # r.echo_inventory_id
  /\ q.target_location = r.target_location
  /\ q.checked_out_at = r.checked_out_at
  /\ q.target_position - r.target_position \in {1, 0 - 1}

TargetTags == {TagD, TagUnknown}

NoteAt(invAll, k) == parseNoteLocation(invAll[k].note)

Observed == "phase" \in DOMAIN resp /\ resp.phase = "done"

\* C30: a batch of a checkout is applied as one unit with respect to the
\* readers beside it: what a read operation has observed, of the checkout
\* records and of the notes, holds either both records of a batch or
\* neither, and either both of its notes or neither, and the notes and
\* records that getInventoryLocations read in its one transaction belong to
\* the same batches.
C30_BatchVisibleAsOneUnit ==
  Observed =>
    /\ \A i \in DOMAIN resp.checkouts :
          \E j \in DOMAIN resp.checkouts : Partner(resp.checkouts[i], resp.checkouts[j])
    /\ \A k \in DOMAIN resp.invAll :
          NoteAt(resp.invAll, k).tag \in {Some(t) : t \in TargetTags} =>
             \E m \in DOMAIN resp.invAll :
                /\ m # k
                /\ NoteAt(resp.invAll, m).tag = NoteAt(resp.invAll, k).tag
                /\ The(NoteAt(resp.invAll, m).position) - The(NoteAt(resp.invAll, k).position)
                      \in {1, 0 - 1}
    /\ resp.op = "locations" =>
          ((\E k \in DOMAIN resp.invAll :
               NoteAt(resp.invAll, k).tag \in {Some(t) : t \in TargetTags})
             <=> resp.checkouts # <<>>)

\* getInventoryLocations has answered with both cards of a batch at the
\* target, after a checkout that waited for it or that it waited for
C30_Witness ==
  /\ Observed
  /\ resp.op = "locations"
  /\ Len(resp.checkouts) = 2
  /\ TagD \in DOMAIN resp.locations
  /\ resp.locations[TagD] = 3

\* C31: the state store is a last-write-wins key/value map: after
\* setState(k, v) getState(k) is v and every other key reads as before, no
\* other operation changes what a key reads as, a key never written reads
\* as undefined, and getStates answers for each key what getState answers.
C31_StateStoreLastWriteWins ==
  [][/\ \A k \in KvKeys, v \in KvValues :
           SetState(k, v) =>
              /\ getState(stateStore', k) = Some(v)
              /\ \A j \in (KvKeys \cup {KvMissing}) \ {k} :
                    getState(stateStore', j) = getState(stateStore, j)
     /\ (~ \E k \in KvKeys, v \in KvValues : SetState(k, v)) =>
           \A j \in KvKeys \cup {KvMissing} :
              getState(stateStore', j) = getState(stateStore, j)
     /\ getState(stateStore', KvMissing) = None
     /\ \A keys \in KeyLists :
           LET values == getStates(stateStore', keys)
           IN /\ DOMAIN values = {keys[i] : i \in 1..Len(keys)}
              /\ \A i \in 1..Len(keys) : values[keys[i]] = getState(stateStore', keys[i])
    ]_vars

\* position written twice, 99 last, beside a location tag: the last write
\* is what reads back
C31_Witness ==
  /\ getState(stateStore, "position") = Some(99)
  /\ getState(stateStore, "locationTag") = Some(42)
  /\ getStates(stateStore, <<"locationTag", "position", "missing">>)
        = [k \in {"locationTag", "position", "missing"} |->
             IF k = "missing" THEN None ELSE IF k = "position" THEN Some(99) ELSE Some(42)]

\* the note of the item of entry m of a batch as the loop finds it: the
\* note written for an earlier entry of the batch that names the same item,
\* else the note in the inventory, the empty note for an item not in it
NoteBefore(inv, ids, loc, offset, m) ==
  LET earlier == {j \in 1..(m - 1) : ids[j] = ids[m]}
  IN IF ~HasInv(inv, ids[m]) THEN <<>>
     ELSE IF earlier = {} THEN inv[ids[m]].note
     ELSE NoteText(loc, offset + (SetMax(earlier) - 1))

\* every record of the batch carries the parse of that note as its source
SourcesOfBatch ==
  \A m \in 1..Len(req'.inventoryIds) :
     LET r == checkouts'[Len(checkouts) + m]
     IN [tag |-> r.source_location, position |-> r.source_position]
          = parseNoteLocation(NoteBefore(inventory, req'.inventoryIds, req'.loc,
                                         req'.offset, m))

\* record j is the next record after record i for the same item
NextForItem(cos, i, j) ==
  /\ i < j
  /\ cos[i].echo_inventory_id = cos[j].echo_inventory_id
  /\ \A k \in (i + 1)..(j - 1) : cos[k].echo_inventory_id # cos[i].echo_inventory_id

SourceIsTarget(cos, i, j) ==
  /\ cos[j].source_location = Some(cos[i].target_location)
  /\ cos[j].source_position = Some(cos[i].target_position)

C33_MigrationConverges ==
  LET m == migrateSearchSchema(cards)
  IN /\ ~needsSearchMigration(m.cards)
     /\ migrateSearchSchema(m.cards).migrated = 0
     /\ \A k \in DOMAIN cards :
           /\ Has(cards[k], "tokens") /\ Has(cards[k], "initials") => m.cards[k] = cards[k]
           /\ m.cards[k].emid = cards[k].emid
           /\ m.cards[k].name = cards[k].name
           /\ m.cards[k].set_code = cards[k].set_code
           /\ m.cards[k].set_name = cards[k].set_name

\* the tags that parse from some note, and the targets of the records out
NoteTagsOf(inv) ==
  {The(parseNoteLocation(inv[k].note).tag) :
     k \in {j \in DOMAIN inv : parseNoteLocation(inv[j].note).tag # None}}

OutTargets(cos) ==
  {cos[i].target_location : i \in {j \in DOMAIN cos : cos[j].status = "out"}}

\* the positions seen at a tag, in the notes and in the records out
SeenAt(inv, cos, tag) ==
  {The(parseNoteLocation(inv[k].note).position) :
     k \in {j \in DOMAIN inv : parseNoteLocation(inv[j].note).tag = Some(tag)}}
  \cup {cos[i].target_position :
          i \in {j \in DOMAIN cos : cos[j].status = "out" /\ cos[j].target_location = tag}}

\* C34: getInventoryLocations has one entry for every location tag that
\* parses from some inventory note and for every target_location of a
\* record that is out, and no other entry; the entry holds the greatest
\* position seen for the tag in the notes and in the records out. A
\* location found only in checked-in records has no entry.
C34_LocationsOfNotesAndOutRecords ==
  LET m == getInventoryLocations(inventory, checkouts)
  IN /\ DOMAIN m = NoteTagsOf(inventory) \cup OutTargets(checkouts)
     /\ \A t \in DOMAIN m :
           /\ m[t] \in SeenAt(inventory, checkouts, t)
           /\ \A n \in SeenAt(inventory, checkouts, t) : n <= m[t]

\* the same statement for the tags seen at a position above 0
C34_LocationsAbovePositionZero ==
  LET m == getInventoryLocations(inventory, checkouts)
  IN /\ DOMAIN m = {t \in NoteTagsOf(inventory) \cup OutTargets(checkouts) :
                       \E n \in SeenAt(inventory, checkouts, t) : n > 0}
     /\ \A t \in DOMAIN m :
           /\ m[t] \in SeenAt(inventory, checkouts, t)
           /\ \A n \in SeenAt(inventory, checkouts, t) : n <= m[t]

\* the entries of a set list, whatever their order
PairsOf(list) == {<<list[i].code, list[i].name>> : i \in DOMAIN list}

\* C35: loadSets(forceRefresh) never rejects and returns a non-empty list
\* by precedence: the persisted list if it is non-empty, younger than 24
\* hours and forceRefresh is false; otherwise a non-empty fetched list,
\* written to storage with the time of the call if its entries differ from
\* the persisted ones or forceRefresh is set (storage is left alone if
\* not); otherwise the stale persisted list; otherwise the static list.
C35_LoadSetsPrecedence ==
  [][\A f \in BOOLEAN, fetched \in FetchOutcomes :
        GetKnownSets(f, fetched) =>
          LET stored == knownSets.storage
              has == stored # None /\ The(stored).sets # <<>>
              fresh == fetched # None /\ The(fetched) # <<>>
          IN /\ resp'.ok
             /\ resp'.sets # <<>>
             /\ IF ~f /\ has /\ now - The(stored).timestamp < CacheDuration
                THEN resp'.sets = The(stored).sets /\ knownSets'.storage = stored
                ELSE IF fresh
                THEN /\ resp'.sets = The(fetched)
                     /\ knownSets'.storage =
                          IF f \/ ~has \/ PairsOf(The(stored).sets) # PairsOf(The(fetched))
                          THEN Some([sets |-> The(fetched), timestamp |-> now])
                          ELSE stored
                ELSE IF has
                THEN resp'.sets = The(stored).sets /\ knownSets'.storage = stored
                ELSE resp'.sets = getFallbackSets /\ knownSets'.storage = stored]_vars

\* a day-31 call whose fetch gave nothing has answered with the list
\* persisted on day 1
C35_Witness ==
  /\ now = 31
  /\ knownSets.storage = Some([sets |-> ListB, timestamp |-> 1])
  /\ knownSets.lastFetch = Some(1)
  /\ resp = [ok |-> TRUE, sets |-> ListB]

\* C36: a REFRESH_KNOWN_SETS whose fetch fails or yields no set answers
\* with the list that was persisted before it and leaves that list in
\* storage.
C36_FailedRefreshKeepsPersisted ==
  [][\A fetched \in {None, Some(<<>>)} :
        (RefreshKnownSets(fetched) /\ knownSets.storage # None) =>
           /\ resp'.sets = The(knownSets.storage).sets
           /\ knownSets'.storage = knownSets.storage]_vars

\* C40: in every reachable state a checkout record has checked_in_at null
\* exactly when its status is "out", and it carries a return_location or a
\* return_position only when its status is "in".
C40_CheckedInAtIffIn ==
  \A i \in DOMAIN checkouts :
     LET r == checkouts[i]
     IN /\ r.status \in {"out", "in"}
        /\ (r.checked_in_at = None) <=> (r.status = "out")
        /\ (r.return_location # None \/ r.return_position # None) => r.status = "in"

\* one record checked in with a return location and position, next to a
\* record that is still out
C40_Witness ==
  \E i, j \in DOMAIN checkouts :
     /\ checkouts[i].status = "in"
     /\ checkouts[i].checked_in_at # None
     /\ checkouts[i].return_location = Some(<<"a">>)
     /\ checkouts[i].return_position = Some(2)
     /\ checkouts[j].status = "out"

\* the keys of the checkout records created for an item since the last
\* import
RecordsSinceImport(cos, invId, importedAt) ==
  {i \in DOMAIN cos : i > importedAt /\ cos[i].echo_inventory_id = invId}

\* C38: at any time the note of an inventory record is the target note
\* "{target_location}p{target_position}" of the most recent checkout record
\* created for the item since the last import, or the imported note if
\* there is none; so only a checkout, an import or a clear change it, and
\* check-in, note-id synchronisation and plan operations never do.
C38_NoteIsLastTargetOrImported ==
  \A k \in DOMAIN inventory :
     LET recs == RecordsSinceImport(checkouts, k, epoch.import)
     IN inventory[k].note =
          IF recs = {} THEN ImportNote(k)
          ELSE LET last == checkouts[SetMax(recs)]
               IN NoteText(last.target_location, last.target_position)

\* an item checked out before the last import and again after it, whose
\* later record has been checked in and whose note id has been stored
C38_Witness ==
  \E k \in DOMAIN inventory :
     /\ epoch.import > 0
     /\ checkouts[1].echo_inventory_id = k
     /\ \E i \in RecordsSinceImport(checkouts, k, epoch.import) : checkouts[i].status = "in"
     /\ inventory[k].note_id # None

\* C39: the notes of the inventory records being pairwise distinct at the
\* start, and every checkout (one at a time, distinct ids in a batch) using
\* the offset the overlay derives for the entered location, no two
\* inventory records ever hold the same note, whatever checkouts and
\* check-ins have run.
C39_NotesStayDistinct ==
  \A j, k \in DOMAIN inventory : j # k => inventory[j].note # inventory[k].note

\* C37: whenever the overlay's phase is login, the Set Cache, Add Cards,
\* Check Out and plans sections are disabled and the card search input is
\* disabled, whatever user events and answers of their requests have
\* interleaved.
C37_LoginPhaseDisablesAll ==
  overlay.currentPhase = "login" =>
     Sections \subseteq overlay.disabled /\ overlay.searchDisabled

\* the same once loadState has set the first phase
LoginPhaseDisablesAllAfterLoad ==
  (overlay.currentPhase = "login" /\ overlay.pending \cap {"load1", "load2"} = {}) =>
     Sections \subseteq overlay.disabled /\ overlay.searchDisabled

\* the part of it about the four sections
LoginPhaseDisablesSections ==
  overlay.currentPhase = "login" => Sections \subseteq overlay.disabled

====
